---- MODULE Spec2Model ----
(***************************************************************************)
(* A model of the YouTube-conversion test run: PlaywrightService.          *)
(* execute_test (services/playwright_service.py) driving                   *)
(* run_standard_youtube_conversion_test (tests/youtube_converter_test.py), *)
(* with the classifier calls of GroqService (services/groq_service.py).    *)
(*                                                                         *)
(* Conventions.  A text (an exception message, a completion) is a sequence *)
(* of tokens; the empty sequence stands for Python's None.  A browser,     *)
(* OCR or language-model call is an input of the action that makes it:    *)
(* its outcome is drawn with \E from the outcomes the call can have.       *)
(* Only exceptions derived from Exception are modelled.                    *)
(***************************************************************************)
EXTENDS Integers, Sequences, FiniteSets, TLC

VARIABLES
    pc,               \* position of the run inside execute_test / the test function
    clock,            \* the wall clock read by datetime.now(), non-decreasing
    context,          \* PlaywrightService.context is set
    close_attempts,   \* number of context.close() calls made by execute_test
    steps,            \* TestResult.steps
    start_time,       \* TestResult.start_time
    end_time,         \* TestResult.end_time (None until complete())
    overall_status,   \* TestResult.overall_status
    analysis,         \* TestResult.analysis
    troubleshooting,  \* TestResult.troubleshooting
    screenshot_path,  \* the test function's local variable screenshot_path
    metadata,         \* the test function's local variable metadata (its ocr_text)
    exc,              \* message of the exception test_func / create_page raised
    progress,         \* the polling loop of checkpoint 6: elapsed seconds, polls made
    log,              \* history: the checkpoint bodies started, and how each ended
    last,             \* history: the outcome of the checkpoint that ran last
    complete_calls,   \* history: the statuses TestResult.complete was called with
    cl_in,            \* classifier check: the outcome of the language-model call
    cl_out,           \* classifier check: what the classifier function returned
    loc_in,           \* locator check: what each selector strategy does when queried
    loc_out,          \* locator check: what the selector loop ended with
    happy,            \* history: so far every browser call returned, every locator
                      \* found its element and every verdict was "no error"
    close_log,        \* history: what the finally clause of execute_test did
    ocr_in,           \* OCR check: the image file and what reading it does
    ocr_out,          \* OCR check: what extract_text_from_image returned, and
                      \* the text the calling gate went on with
    report,           \* the reporting flow of app.py: "pending" until its
                      \* analysis pass has run, then "analyzed"
    assignments       \* history: the assignments to analysis and
                      \* troubleshooting, each named by where its values came from

vars == <<pc, clock, context, close_attempts, steps, start_time,
          end_time, overall_status, analysis, troubleshooting, assignments, report, screenshot_path, metadata, exc, progress, log, last, complete_calls,
          cl_in, cl_out, loc_in, loc_out, happy, close_log, ocr_in, ocr_out>>

(***************************************************************************)
(* Bounds of the model.                                                    *)
(***************************************************************************)
\* the clock takes the values 0..MaxClock
MaxClock == 1
\* completions of the language model have at most MaxLen tokens
MaxLen == 4
\* selector lists of the locator check have at most MaxSelectors strategies
MaxSelectors == 4
\* the two page queries of one poll take no time, or MaxCallTime seconds together
MaxCallTime == 1
\* the OCR engine returns texts of at most MaxOcrLen characters
MaxOcrLen == 3

None == <<>>
NoTime == -1

(***************************************************************************)
(* Texts.                                                                  *)
(***************************************************************************)
\* "needle in text" for the phrases the code searches for: a phrase is one token
Contains(text, phrase) == \E i \in 1..Len(text) : text[i] = phrase

\* the message of an exception thrown by the browser call `call`
BrowserError(call) == <<"BrowserError", call>>

\* 'X' object has no attribute 'get': .get() on a parsed value that is no dict
AttributeError == <<"AttributeError", "get">>

(***************************************************************************)
(* The language-model completion and its parsing (GroqService).            *)
(* A completion is a sequence of tokens: "x" is prose, "n" a JSON scalar   *)
(* (a number), "{" "}" "," the JSON punctuation, and a member token one    *)
(* key/value pair of an object: "e:t" is "error": true, "e:f" is           *)
(* "error": false, "m" is "message": "site error", "mc" is                 *)
(* "message": "Conversion failed", "d:t" is "download_available": true,    *)
(* "a" is "analysis": "...", "t" is "troubleshooting": "...", "m0" is       *)
(* "message": null.                                                        *)
(***************************************************************************)
Members == {"e:t", "e:f", "m", "mc", "m0", "d:t", "a", "t"}
Tokens == {"x", "n", "{", "}", ",", "e:t", "e:f", "m", "d:t"}
Completions == UNION {[1..n -> Tokens] : n \in 0..MaxLen}

\* the outcomes of client.chat.completions.create(...).choices[0].message.content
Raises == [kind |-> "raise", content |-> None]
NoContent == [kind |-> "none", content |-> None]
Text(s) == [kind |-> "text", content |-> s]

\* re.search(r"(\{.*\})", s, re.DOTALL): the leftmost "{" and, the star being
\* greedy, the last "}" after it
FirstOpen(s) ==
    IF \E i \in 1..Len(s) : s[i] = "{"
    THEN CHOOSE i \in 1..Len(s) : s[i] = "{" /\ \A j \in 1..(i - 1) : s[j] # "{"
    ELSE 0
LastClose(s) ==
    IF \E i \in 1..Len(s) : s[i] = "}"
    THEN CHOOSE i \in 1..Len(s) : s[i] = "}" /\ \A j \in (i + 1)..Len(s) : s[j] # "}"
    ELSE 0
ReSearchMatches(s) == FirstOpen(s) # 0 /\ LastClose(s) > FirstOpen(s)
ReSearchGroup(s) == SubSeq(s, FirstOpen(s), LastClose(s))

\* json_match = re.search(...); if json_match: text = json_match.group(1)
ExtractJson(s) == IF ReSearchMatches(s) THEN ReSearchGroup(s) ELSE s

\* json.loads: the texts it accepts are one object { member , member ... } or
\* one scalar; of a repeated key the last value is kept
IsObject(s) ==
    /\ Len(s) >= 2
    /\ s[1] = "{"
    /\ s[Len(s)] = "}"
    /\ \/ Len(s) = 2
       \/ /\ Len(s) % 2 = 1
          /\ \A i \in 2..(Len(s) - 1) :
                IF i % 2 = 0 THEN s[i] \in Members ELSE s[i] = ","
LastOf(s, keyTokens) ==
    IF \E i \in 1..Len(s) : s[i] \in keyTokens
    THEN s[CHOOSE i \in 1..Len(s) :
               s[i] \in keyTokens /\ \A j \in (i + 1)..Len(s) : s[j] \notin keyTokens]
    ELSE "absent"
\* the value of a member "message": null, which dict.get returns as None
JsonNull == <<"null">>
\* a parsed value: a dict (its keys the code reads), or a value that is no dict
Scalar == [kind |-> "scalar", error |-> "absent", message |-> None,
           download_available |-> "absent", analysis |-> None,
           troubleshooting |-> None]
NoValue == [Scalar EXCEPT !.kind = "none"]
Dict(error, message, download_available) ==
    [Scalar EXCEPT !.kind = "dict", !.error = error, !.message = message,
                   !.download_available = download_available]
JsonLoads(s) ==
    IF IsObject(s)
    THEN [raised |-> "no",
          value |->
            [Dict(CASE LastOf(s, {"e:t", "e:f"}) = "e:t" -> "true"
                    [] LastOf(s, {"e:t", "e:f"}) = "e:f" -> "false"
                    [] OTHER -> "absent",
                  CASE LastOf(s, {"m", "mc", "m0"}) = "m" -> <<"site error">>
                    [] LastOf(s, {"m", "mc", "m0"}) = "mc" -> <<"Conversion failed">>
                    [] LastOf(s, {"m", "mc", "m0"}) = "m0" -> JsonNull
                    [] OTHER -> None,
                  IF LastOf(s, {"d:t"}) = "d:t" THEN "true" ELSE "absent")
             EXCEPT !.analysis =
                        IF LastOf(s, {"a"}) = "a" THEN <<"llm analysis">> ELSE None,
                    !.troubleshooting =
                        IF LastOf(s, {"t"}) = "t" THEN <<"llm troubleshooting">>
                        ELSE None]]
    ELSE IF s = <<"n">>
    THEN [raised |-> "no", value |-> Scalar]
    ELSE [raised |-> "JSONDecodeError", value |-> NoValue]

\* the try body shared by the classifier calls: the call, the extraction, the parse
ClassifierBody(call) ==
    CASE call.kind = "raise" -> [raised |-> "Exception", value |-> NoValue]
      [] call.kind = "none" -> [raised |-> "Exception", value |-> NoValue]
      [] OTHER -> JsonLoads(ExtractJson(call.content))

\* dict.get(key, default) read as a truth value
Truthy(v) == v = "true"

\* the except clauses of check_screenshot_for_errors
ScreenshotHandlers(r) ==
    CASE r.raised = "JSONDecodeError" ->
           [raised |-> "no",
            value |-> Dict("true", <<"Failed to parse", "LLM response as JSON">>, "absent")]
      [] r.raised = "Exception" ->
           [raised |-> "no",
            value |-> Dict("true", <<"Error analyzing OCR text">>, "absent")]
      [] OTHER -> r

check_screenshot_for_errors(call) == ScreenshotHandlers(ClassifierBody(call))

\* mutant: check_final_state with the JSONDecodeError clause only
FinalStateHandlers_OnlyJson(r) ==
    CASE r.raised = "JSONDecodeError" ->
           [raised |-> "no",
            value |-> Dict("true", <<"Failed to parse", "LLM response as JSON">>, "absent")]
      [] OTHER -> r

\* the except clauses of check_final_state
FinalStateHandlers(r) ==
    CASE r.raised = "JSONDecodeError" ->
           [raised |-> "no",
            value |-> Dict("true", <<"Failed to parse", "LLM response as JSON">>, "absent")]
      [] r.raised = "Exception" ->
           [raised |-> "no",
            value |-> Dict("true", <<"Error analyzing final state">>, "absent")]
      [] OTHER -> r

check_final_state(call) == FinalStateHandlers(ClassifierBody(call))

(***************************************************************************)
(* extract_text_from_image (utils/ocr.py).  A text is a sequence of        *)
(* characters, one of each kind that the function treats differently:      *)
(* "a" an ASCII letter, " " a space, "nl" a newline, "ctl" a control       *)
(* character that is no whitespace (\x01), "e_acute" U+00E9, "fi_lig"      *)
(* U+FB01, "nbsp" U+00A0, "cjk" a character with no ASCII decomposition;   *)
(* "e", "f", "i" are ASCII letters and "combining" is U+0301, which NFKD   *)
(* produces.  The two literals of the function are one token each.         *)
(***************************************************************************)
OcrChars == {"a", " ", "nl", "ctl", "e_acute", "fi_lig", "nbsp", "cjk"}
Ascii == {"a", "e", "f", "i", " ", "nl", "ctl",
          "Image file not found", "OCR Error: "}
PrintableAscii == Ascii \ {"nl", "ctl"}
Whitespace == {" ", "nl"}

\* unicodedata.normalize("NFKD", text), character by character
Nfkd(c) ==
    CASE c = "e_acute" -> <<"e", "combining">>
      [] c = "fi_lig" -> <<"f", "i">>
      [] c = "nbsp" -> <<" ">>
      [] OTHER -> <<c>>
RECURSIVE normalize(_)
normalize(text) ==
    IF text = <<>> THEN <<>> ELSE Nfkd(Head(text)) \o normalize(Tail(text))

\* text.encode("ascii", "ignore").decode("ascii")
encode_ascii_ignore(text) == SelectSeq(text, LAMBDA c : c \in Ascii)

\* str.strip()
RECURSIVE lstrip(_)
lstrip(text) ==
    IF text # <<>> /\ Head(text) \in Whitespace THEN lstrip(Tail(text)) ELSE text
RECURSIVE rstrip(_)
rstrip(text) ==
    IF text # <<>> /\ text[Len(text)] \in Whitespace
    THEN rstrip(SubSeq(text, 1, Len(text) - 1))
    ELSE text
strip(text) == rstrip(lstrip(text))

\* the image file: whether it exists, which call of the try body throws
\* ("none", "open", "image_to_string", "close"), the text the engine reads
\* and the message of the exception thrown
NoImage == [exists |-> FALSE, fail |-> "none", text |-> <<>>, message |-> <<>>]
OcrIdle == [done |-> FALSE, raised |-> FALSE, value |-> <<>>,
            gate_called |-> FALSE, gate_text |-> <<>>]

\* the try body: Image.open, image_to_string, image.close, normalise, strip
OcrBody(image) ==
    IF image.fail # "none"
    THEN [raised |-> TRUE, value |-> image.message]
    ELSE [raised |-> FALSE,
          value |-> strip(encode_ascii_ignore(normalize(image.text)))]

\* mutant: the try statement without its except clause
OcrHandler_NoExcept(r) == r

\* except Exception as e: return f"OCR Error: {str(e)}"
OcrHandler(r) ==
    IF r.raised
    THEN [raised |-> FALSE, value |-> <<"OCR Error: ">> \o r.value]
    ELSE r

\* the function as a whole (the run abstracts it as extract_text_from_image)
ExtractText(image) ==
    IF ~image.exists
    THEN [raised |-> FALSE, value |-> <<"Image file not found">>]
    ELSE OcrHandler(OcrBody(image))

(***************************************************************************)
(* The inputs of a run.                                                    *)
(***************************************************************************)
\* extract_text_from_image(screenshot_path): the text read off a screenshot,
\* told apart by the screenshot it was read from
extract_text_from_image(shot) ==
    CASE shot = "site_navigation" -> "text of site_navigation"
      [] shot = "before_convert_click" -> "text of before_convert_click"
      [] shot = "final_state" -> "text of final_state"
      [] OTHER -> "Image file not found"

\* the outcomes of a language-model call that a run is checked against
RunCalls ==
    {Raises, NoContent,
     Text(<<"{", "e:f", "}">>),
     Text(<<"{", "e:f", ",", "d:t", "}">>),
     Text(<<"{", "e:t", ",", "mc", "}">>),
     Text(<<"{", "e:t", ",", "m0", "}">>),
     Text(<<"{", "e:t", "}">>),
     Text(<<"{", "}">>),
     Text(<<"x">>),
     Text(<<"n">>)}

(***************************************************************************)
(* TestStep and TestResult (models/test_result.py).                        *)
(***************************************************************************)
\* TestStep(name=, status=, error_message=, screenshot_path=, metadata=): the
\* timestamp defaults to datetime.now(); ocr is metadata["ocr_text"], "None"
\* when the step is built without metadata
\* mutant: timestamp: datetime = datetime.now(), a default evaluated once, when
\* the class is defined
TestStep_DefaultAtImport(name, status, error_message, shot, ocr) ==
    [name |-> name, status |-> status, error_message |-> error_message,
     screenshot_path |-> shot, ocr_text |-> ocr, timestamp |-> 0]

TestStep(name, status, error_message, shot, ocr) ==
    [name |-> name, status |-> status, error_message |-> error_message,
     screenshot_path |-> shot, ocr_text |-> ocr, timestamp |-> clock]

\* mutant: add_step that puts the new step in front
add_step_Prepend(ss, step) == <<step>> \o ss

\* TestResult.add_step
add_step(ss, step) == Append(ss, step)

\* error_result.get("message", "Unknown error detected in OCR text")
MessageOf(v) ==
    IF v.message = None THEN <<"Unknown error detected in OCR text">>
    ELSE IF v.message = JsonNull THEN None
    ELSE v.message

\* {error_message} inside an f-string: str(None) is "None"
Str(m) == IF m = None THEN <<"None">> ELSE m

(***************************************************************************)
(* The checkpoints of run_standard_youtube_conversion_test.  The body of a *)
(* checkpoint yields an outcome: the steps it appended, the exception      *)
(* raised inside the body (None when it completed), the exception that     *)
(* left the checkpoint, what its gate said and the language-model call it  *)
(* rested on, the primary actions it performed on the page and those that  *)
(* threw, what became of the screenshot its except clause takes, and the   *)
(* locals screenshot_path and metadata.                                    *)
(* `fail` names the first browser call of the body that throws.            *)
(***************************************************************************)
NoCall == [kind |-> "not called", content |-> None]

\* the argument of analyze_test_full, before the call is made
NoSummaryInput ==
    [initial |-> "not called", before_conversion |-> "not called",
     final |-> "not called"]

Outcome0 ==
    [added |-> <<>>, body_exc |-> None, escaped |-> None, gate |-> "none",
     call |-> NoCall, performed |-> {}, thrown |-> {}, handler_shot |-> "none",
     summary_in |-> NoSummaryInput,
     shot |-> screenshot_path,
     meta |-> metadata]

Raise(o, message) == [o EXCEPT !.body_exc = message]

\* mutant: an except clause that records the error step and does not re-raise
HardHandler_NoReraise(o, name, label, handler_shot_ok) ==
    IF o.body_exc = None THEN o
    ELSE IF handler_shot_ok
    THEN [o EXCEPT !.added = add_step(@, TestStep(name, "error", o.body_exc, label, "None"))]
    ELSE [o EXCEPT !.escaped = BrowserError("take_screenshot")]

\* the except clause of a hard checkpoint whose error step takes a screenshot:
\* the TestStep is built (take_screenshot first), appended, then `raise`
HardHandler(o, name, label, handler_shot_ok) ==
    IF o.body_exc = None THEN o
    ELSE IF handler_shot_ok
    THEN [o EXCEPT !.added = add_step(@, TestStep(name, "error", o.body_exc, label, "None")),
                   !.escaped = o.body_exc,
                   !.handler_shot = "taken"]
    ELSE [o EXCEPT !.escaped = BrowserError("take_screenshot"),
                   !.handler_shot = "failed"]

\* Step 1, try body
NavigateBody(fail, call) ==
    CASE fail = "goto" ->
           Raise([Outcome0 EXCEPT !.thrown = {"goto"}], BrowserError("goto"))
      [] fail = "wait_for_load_state" ->
           Raise([Outcome0 EXCEPT !.performed = {"goto"}],
                 BrowserError("wait_for_load_state"))
      [] fail = "take_screenshot" ->
           Raise([Outcome0 EXCEPT !.performed = {"goto"}],
                 BrowserError("take_screenshot"))
      [] OTHER ->
           LET ocr == extract_text_from_image("site_navigation")
               r == check_screenshot_for_errors(call)
               s == [Outcome0 EXCEPT !.performed = {"goto"}, !.call = call,
                                     !.shot = "site_navigation"]
               o == [s EXCEPT !.meta = ocr]
           IN  IF r.raised # "no" THEN Raise(s, <<r.raised>>)
               ELSE IF r.value.kind # "dict" THEN Raise(o, AttributeError)
               ELSE IF Truthy(r.value.error)
               THEN Raise([o EXCEPT
                             !.gate = "error",
                             !.added = add_step(@,
                                 TestStep("navigate_to_site", "error",
                                          MessageOf(r.value), "site_navigation", ocr))],
                          <<"Navigation error">> \o Str(MessageOf(r.value)))
               ELSE [o EXCEPT
                       !.gate = "passed",
                       !.added = add_step(@,
                           TestStep("navigate_to_site", "success", None,
                                    "site_navigation", ocr))]

\* Step 1, except clause: the error step takes no screenshot
NavigateHandler(o) ==
    IF o.body_exc = None THEN o
    ELSE [o EXCEPT !.added = add_step(@, TestStep("navigate_to_site", "error",
                                                  o.body_exc, "None", "None")),
                   !.escaped = o.body_exc]

navigate_to_site(fail, call) == NavigateHandler(NavigateBody(fail, call))

\* for selector in selectors: try: el = page.wait_for_selector(selector, ...);
\* if el: break; except: continue.  outs[i] is what strategy i does ("hit",
\* "miss" or "raise"); the result is the index of the strategy whose element is
\* used, 0 when the loop ends without one
RECURSIVE SelectorLoopFrom(_, _, _)
SelectorLoopFrom(outs, i, queried) ==
    IF i > Len(outs) THEN [found |-> 0, queried |-> queried]
    ELSE IF outs[i] = "hit" THEN [found |-> i, queried |-> Append(queried, i)]
    ELSE SelectorLoopFrom(outs, i + 1, Append(queried, i))

\* mutant: the loop without `break`: every strategy is queried and the element
\* of the last one that matches is kept
SelectorLoop_NoBreak(outs) ==
    LET hits == {i \in 1..Len(outs) : outs[i] = "hit"}
    IN  [found |-> IF hits = {} THEN 0
                   ELSE CHOOSE i \in hits : \A j \in hits : j <= i,
         queried |-> [i \in 1..Len(outs) |-> i]]

\* the loop as a whole: the strategy whose element is kept, and the strategies
\* queried, in the order they were queried
SelectorLoop(outs) == SelectorLoopFrom(outs, 1, <<>>)

FirstHit(outs) == SelectorLoop(outs).found

\* the strategy outcomes a run is checked against: no strategy matches, or the
\* strategies from k on match
AllMiss(n) == [i \in 1..n |-> IF i % 2 = 1 THEN "raise" ELSE "miss"]
HitFrom(n, k) == [i \in 1..n |-> IF i < k THEN "raise" ELSE "hit"]
SelectorOutcomes(n) == {AllMiss(n), HitFrom(n, 1), HitFrom(n, n)}

\* the lengths of the selector lists
NUrlLinkSelectors == 10
NFormatSelectors == 6
NConvertButtonSelectors == 1
NProgressSelectors == 9

\* Step 2, try body.  fallback: the text scan finds an element containing "url";
\* click_ok: the dispatched click returns (its failure is logged and dropped)
ClickUrlLinkBody(fail, outs, fallback, click_ok) ==
    IF fail = "wait_for_load_state"
    THEN Raise(Outcome0, BrowserError("wait_for_load_state"))
    ELSE IF FirstHit(outs) = 0 /\ fail = "query_selector_all"
    THEN Raise(Outcome0, BrowserError("query_selector_all"))
    ELSE IF FirstHit(outs) = 0 /\ fail = "inner_text"
    THEN \* text = element.inner_text().lower() of the text scan, not in a try
         Raise([Outcome0 EXCEPT !.thrown = {"scan_inner_text"}],
               BrowserError("inner_text"))
    ELSE IF FirstHit(outs) = 0 /\ ~fallback
    THEN Raise(Outcome0, <<"Could not find URL link element">>)
    ELSE LET o == [Outcome0 EXCEPT
                     !.performed = IF click_ok THEN {"url_link_click"} ELSE {},
                     !.thrown = IF click_ok THEN {} ELSE {"url_link_click"}]
         IN  IF fail = "take_screenshot"
             THEN Raise(o, BrowserError("take_screenshot"))
             ELSE [o EXCEPT
                     !.shot = "click_url_link",
                     !.added = add_step(@, TestStep("click_url_link", "success",
                                                    None, "click_url_link", "None"))]

click_url_link(fail, outs, fallback, click_ok, handler_shot_ok) ==
    HardHandler(ClickUrlLinkBody(fail, outs, fallback, click_ok),
                "click_url_link", "url_link_error", handler_shot_ok)

\* Step 3: prompt_input = None is never reassigned, so the block that focuses,
\* fills and types is never entered
prompt_input == None

InputUrlBody(fail, input_field_needed) ==
    IF fail = "evaluate"
    THEN Raise(Outcome0, BrowserError("evaluate"))
    ELSE [Outcome0 EXCEPT
            !.performed = (IF input_field_needed THEN {"input_field_visible"} ELSE {})
                          \cup (IF input_field_needed /\ prompt_input # None
                                THEN {"type_url"} ELSE {}),
            !.added = add_step(@, TestStep("input_youtube_url", "success", None,
                                           screenshot_path, "None"))]

input_youtube_url(fail, input_field_needed, handler_shot_ok) ==
    HardHandler(InputUrlBody(fail, input_field_needed),
                "input_youtube_url", "input_url_error", handler_shot_ok)

\* Step 4, try body (the loop over mp4_selectors swallows what it raises)
SelectFormatBody(fail, outs) ==
    IF fail = "wait_for_load_state"
    THEN Raise(Outcome0, BrowserError("wait_for_load_state"))
    ELSE IF FirstHit(outs) # 0 /\ fail = "click"
    THEN Raise(Outcome0, BrowserError("click"))
    ELSE LET o == [Outcome0 EXCEPT
                     !.performed = IF FirstHit(outs) # 0 THEN {"format_click"} ELSE {}]
         IN  IF fail = "take_screenshot"
             THEN Raise(o, BrowserError("take_screenshot"))
             ELSE [o EXCEPT
                     !.shot = "select_format",
                     !.added = add_step(@, TestStep("select_mp4_format", "success",
                                                    None, "select_format", "None"))]

\* Step 4, except clause: a warning step (its screenshot taken first), no raise
SoftHandler(o, handler_shot_ok) ==
    IF o.body_exc = None THEN o
    ELSE IF handler_shot_ok
    THEN [o EXCEPT !.added = add_step(@,
                       TestStep("select_mp4_format", "warning",
                                <<"Could not explicitly select MP4 format, may be using default">>,
                                "select_format_warning", "None")),
                   !.handler_shot = "taken"]
    ELSE [o EXCEPT !.escaped = BrowserError("take_screenshot"),
                   !.handler_shot = "failed"]

select_mp4_format(fail, outs, handler_shot_ok) ==
    SoftHandler(SelectFormatBody(fail, outs), handler_shot_ok)

\* Step 5, try body.  fail "take_screenshot" is the capture before the gate,
\* "take_screenshot_after" the capture that follows the click, the JavaScript
\* trigger or the miss.  fallback: the scan of the buttons finds one (an
\* inner_text that throws there is skipped); js_result: what the script returns
ClickConvertBody(fail, call, outs, fallback, js_result) ==
    IF fail = "take_screenshot"
    THEN Raise(Outcome0, BrowserError("take_screenshot"))
    ELSE
    LET ocr == extract_text_from_image("before_convert_click")
        r == check_screenshot_for_errors(call)
        s == [Outcome0 EXCEPT !.shot = "before_convert_click", !.meta = ocr,
                              !.call = call]
    IN  IF r.raised # "no" THEN Raise(s, <<r.raised>>)
        ELSE IF r.value.kind # "dict" THEN Raise(s, AttributeError)
        ELSE IF Truthy(r.value.error)
        THEN Raise([s EXCEPT
                      !.gate = "error",
                      !.added = add_step(@,
                          TestStep("before_convert_button", "error",
                                   MessageOf(r.value), "before_convert_click", ocr))],
                   <<"Pre-conversion error">> \o Str(MessageOf(r.value)))
        ELSE
        \* a button.inner_text() of the text scan that throws is skipped by the
        \* try/except: continue around it
        LET o == [s EXCEPT !.gate = "passed",
                           !.thrown = IF FirstHit(outs) = 0 /\ fail = "inner_text"
                                      THEN {"scan_inner_text"} ELSE {}]
        IN  IF FirstHit(outs) = 0 /\ fail = "query_selector_all"
            THEN Raise(o, BrowserError("query_selector_all"))
            ELSE IF FirstHit(outs) # 0 \/ fallback
            THEN \* convert_button.click(force=True)
                 IF fail = "click"
                 THEN Raise([o EXCEPT !.thrown = {"convert_click"}],
                            BrowserError("click"))
                 ELSE IF fail = "take_screenshot_after"
                 THEN Raise([o EXCEPT !.performed = {"convert_click"}],
                            BrowserError("take_screenshot"))
                 ELSE [o EXCEPT
                         !.performed = {"convert_click"},
                         !.shot = "click_convert",
                         !.added = add_step(@,
                             TestStep("click_convert_button", "success", None,
                                      "click_convert", ocr))]
            ELSE \* page.evaluate(...)
                 IF fail = "evaluate"
                 THEN Raise([o EXCEPT !.thrown = {"js_trigger"}],
                            BrowserError("evaluate"))
                 ELSE IF js_result
                 THEN IF fail = "take_screenshot_after"
                      THEN Raise([o EXCEPT !.performed = {"js_trigger"}],
                                 BrowserError("take_screenshot"))
                      ELSE [o EXCEPT
                              !.performed = {"js_trigger"},
                              !.shot = "js_convert",
                              !.added = add_step(@,
                                  TestStep("click_convert_button", "success", None,
                                           "js_convert", ocr))]
                 ELSE IF fail = "take_screenshot_after"
                      THEN Raise(o, BrowserError("take_screenshot"))
                      ELSE Raise(o, <<"Could not find convert button">>)

\* mutant: the except clause of step 5 without the final `raise`
click_convert_button_Swallow(fail, call, outs, fallback, js_result, handler_shot_ok) ==
    [HardHandler(ClickConvertBody(fail, call, outs, fallback, js_result),
                 "click_convert_button", "convert_button_error", handler_shot_ok)
       EXCEPT !.escaped = None]

\* mutant: the convert button is clicked before the gate is consulted
click_convert_button_ClickFirst(fail, call, outs, fallback, js_result, handler_shot_ok) ==
    LET o == HardHandler(ClickConvertBody(fail, call, outs, fallback, js_result),
                         "click_convert_button", "convert_button_error",
                         handler_shot_ok)
    IN  IF o.gate = "error" THEN [o EXCEPT !.performed = {"convert_click"}] ELSE o

click_convert_button(fail, call, outs, fallback, js_result, handler_shot_ok) ==
    HardHandler(ClickConvertBody(fail, call, outs, fallback, js_result),
                "click_convert_button", "convert_button_error", handler_shot_ok)

\* mutant: the conversion_in_progress capture and step are made whether or not
\* an indicator was found
WaitForConversionBody_StepAlways(fail, outs) ==
    IF fail = "wait_for_load_state"
    THEN Raise(Outcome0, BrowserError("wait_for_load_state"))
    ELSE IF fail = "take_screenshot"
    THEN Raise(Outcome0, BrowserError("take_screenshot"))
    ELSE [Outcome0 EXCEPT
            !.shot = "conversion_progress",
            !.added = add_step(@, TestStep("conversion_in_progress", "success",
                                           None, "conversion_progress", "None"))]

\* Step 6, from the try to the polling loop or the fixed sleep
WaitForConversionBody(fail, outs) ==
    IF fail = "wait_for_load_state"
    THEN Raise(Outcome0, BrowserError("wait_for_load_state"))
    ELSE IF FirstHit(outs) # 0
    THEN IF fail = "take_screenshot"
         THEN Raise(Outcome0, BrowserError("take_screenshot"))
         ELSE [Outcome0 EXCEPT
                 !.shot = "conversion_progress",
                 !.added = add_step(@, TestStep("conversion_in_progress", "success",
                                                None, "conversion_progress", "None"))]
    ELSE Outcome0

\* Step 6, after the polling loop or the sleep: the final capture and step
WaitForConversionEnd(fail) ==
    IF fail = "take_screenshot"
    THEN Raise(Outcome0, BrowserError("take_screenshot"))
    ELSE [Outcome0 EXCEPT
            !.shot = "conversion_complete",
            !.added = add_step(@, TestStep("wait_for_conversion", "success", None,
                                           "conversion_complete", "None"))]

WaitHandler(o, handler_shot_ok) ==
    HardHandler(o, "wait_for_conversion", "conversion_error", handler_shot_ok)

\* the polling loop
max_wait_time == 120
PollSleep == 5
FallbackSleep == 60

\* the except clauses of analyze_test_full
SummaryHandlers(r) ==
    CASE r.raised = "JSONDecodeError" ->
           [raised |-> "no",
            value |-> [Dict("absent", None, "absent") EXCEPT
                         !.analysis = <<"Error during analysis", "Failed to parse">>,
                         !.troubleshooting = <<"Check the logs for the raw LLM response">>]]
      [] r.raised = "Exception" ->
           [raised |-> "no",
            value |-> [Dict("absent", None, "absent") EXCEPT
                         !.analysis = <<"Error during analysis">>,
                         !.troubleshooting = <<"Please check the logs">>]]
      [] OTHER -> r

analyze_test_full(call) == SummaryHandlers(ClassifierBody(call))

\* analyze_screenshots, try body: the call, the extraction, the parse and the
\* two parsed_response.get(...) of the returned dict
AnalyzeScreenshotsBody(call) ==
    LET r == ClassifierBody(call)
    IN  IF r.raised # "no" THEN r
        ELSE IF r.value.kind # "dict"
        THEN [raised |-> "Exception", value |-> NoValue]
        ELSE [raised |-> "no",
              value |->
                [r.value EXCEPT
                   !.analysis =
                       IF @ = None THEN <<"No analysis available">> ELSE @,
                   !.troubleshooting =
                       IF @ = None
                       THEN <<"No troubleshooting recommendations available">>
                       ELSE @]]

\* the except clauses of analyze_screenshots
AnalyzeScreenshotsHandlers(r) ==
    CASE r.raised = "JSONDecodeError" ->
           [Dict("absent", None, "absent") EXCEPT
              !.analysis = <<"Error during screenshot analysis", "Failed to parse">>,
              !.troubleshooting = <<"Check the raw LLM response in logs">>]
      [] r.raised = "Exception" ->
           [Dict("absent", None, "absent") EXCEPT
              !.analysis = <<"Error during screenshot analysis">>,
              !.troubleshooting = <<"Please check the logs">>]
      [] OTHER -> r.value

analyze_screenshots(call) == AnalyzeScreenshotsHandlers(AnalyzeScreenshotsBody(call))

\* the steps analyze_test_results collects: step.metadata and "ocr_text" in
\* step.metadata
screenshot_data(ss) == SelectSeq(ss, LAMBDA step : step.ocr_text # "None")

\* GroqService.analyze_test_results: what it assigns to test_result.analysis and
\* test_result.troubleshooting, and where the values come from
analyze_test_results(ss, call) ==
    IF screenshot_data(ss) = <<>>
    THEN [by |-> "constant",
          analysis |-> <<"No screenshot OCR data available for analysis">>,
          troubleshooting |-> <<"Ensure OCR is performed on screenshots">>]
    ELSE [by |-> "analyze_screenshots",
          analysis |-> analyze_screenshots(call).analysis,
          troubleshooting |-> analyze_screenshots(call).troubleshooting]

\* what the DOM checks of step 7 did: the error-element check ran, and the
\* visible elements found.  The success-message selectors are tried only when no
\* download button was found; the text of the error element is read unless
\* inner_text throws
DomChecks(dom, fail) ==
    {"dom_error_check"}
    \cup (IF dom.download THEN {"download_button"}
          ELSE IF dom.success THEN {"success_message"} ELSE {})
    \cup (IF dom.error THEN {"error_element"} ELSE {})
    \cup (IF dom.error /\ fail # "inner_text" THEN {"error_text"} ELSE {})

\* mutant: the error selectors are tried only when neither a download button nor
\* a success message was found
CheckDownloadVerdict_ErrorCheckLast(fail, call, dom) ==
    IF fail = "wait_for_load_state"
    THEN Raise(Outcome0, BrowserError("wait_for_load_state"))
    ELSE IF fail = "take_screenshot"
    THEN Raise(Outcome0, BrowserError("take_screenshot"))
    ELSE
    LET ocr == extract_text_from_image("final_state")
        r == check_final_state(call)
        s == [Outcome0 EXCEPT !.shot = "final_state", !.meta = ocr, !.call = call]
    IN  IF r.raised # "no" THEN Raise(s, <<r.raised>>)
        ELSE IF r.value.kind # "dict" THEN Raise(s, AttributeError)
        ELSE IF Truthy(r.value.error)
        THEN Raise([s EXCEPT
                      !.gate = "error",
                      !.added = add_step(@,
                          TestStep("check_download_availability", "failure",
                                   MessageOf(r.value), "final_state", ocr))],
                   <<"Conversion failed">> \o Str(MessageOf(r.value)))
        ELSE
        LET by_classifier == Truthy(r.value.download_available)
            download_available == by_classifier \/ dom.download \/ dom.success
            o == [s EXCEPT !.gate = "passed",
                           !.performed = IF ~by_classifier /\ fail \in {"none", "inner_text"}
                                         THEN DomChecks(dom, fail) ELSE {}]
        IN  IF ~by_classifier /\ fail \in {"query_selector", "is_visible"}
            THEN Raise(o, BrowserError(fail))
            ELSE IF ~download_available /\ dom.error
            THEN IF fail = "inner_text"
                 THEN Raise(o, <<"Conversion failed", "with unspecified error">>)
                 ELSE Raise([o EXCEPT
                               !.added = add_step(@,
                                   TestStep("check_download_availability", "failure",
                                            <<"dom error text">>, "final_state", ocr))],
                            <<"Conversion failed", "with unspecified error">>)
            ELSE IF download_available
            THEN [o EXCEPT !.added = add_step(@,
                               TestStep("check_download_availability", "success",
                                        None, "final_state", ocr))]
            ELSE [o EXCEPT !.added = add_step(@,
                               TestStep("check_download_availability", "warning",
                                        <<"No clear download button or success message found">>,
                                        "final_state", ocr))]

\* Step 7, try body up to the step that records the verdict.  dom.download,
\* dom.success, dom.error: a visible element is found by the download-button,
\* success-message, error selectors; fail "query_selector" / "is_visible" is a
\* throwing query of the DOM checks, "inner_text" the read of the error text
CheckDownloadVerdict(fail, call, dom) ==
    IF fail = "wait_for_load_state"
    THEN Raise(Outcome0, BrowserError("wait_for_load_state"))
    ELSE IF fail = "take_screenshot"
    THEN Raise(Outcome0, BrowserError("take_screenshot"))
    ELSE
    LET ocr == extract_text_from_image("final_state")
        r == check_final_state(call)
        s == [Outcome0 EXCEPT !.shot = "final_state", !.meta = ocr, !.call = call]
    IN  IF r.raised # "no" THEN Raise(s, <<r.raised>>)
        ELSE IF r.value.kind # "dict" THEN Raise(s, AttributeError)
        ELSE IF Truthy(r.value.error)
        THEN Raise([s EXCEPT
                      !.gate = "error",
                      !.added = add_step(@,
                          TestStep("check_download_availability", "failure",
                                   MessageOf(r.value), "final_state", ocr))],
                   <<"Conversion failed">> \o Str(MessageOf(r.value)))
        ELSE
        LET by_classifier == Truthy(r.value.download_available)
            download_available == by_classifier \/ dom.download \/ dom.success
            o == [s EXCEPT !.gate = "passed",
                           !.performed = IF ~by_classifier /\ fail \in {"none", "inner_text"}
                                         THEN DomChecks(dom, fail) ELSE {}]
        IN  IF ~by_classifier /\ fail \in {"query_selector", "is_visible"}
            THEN Raise(o, BrowserError(fail))
            ELSE IF ~by_classifier /\ dom.error
            THEN \* the raise inside the inner try is caught by its own except
                 IF fail = "inner_text"
                 THEN Raise(o, <<"Conversion failed", "with unspecified error">>)
                 ELSE Raise([o EXCEPT
                               !.added = add_step(@,
                                   TestStep("check_download_availability", "failure",
                                            <<"dom error text">>, "final_state", ocr))],
                            <<"Conversion failed", "with unspecified error">>)
            ELSE IF download_available
            THEN [o EXCEPT !.added = add_step(@,
                               TestStep("check_download_availability", "success",
                                        None, "final_state", ocr))]
            ELSE [o EXCEPT !.added = add_step(@,
                               TestStep("check_download_availability", "warning",
                                        <<"No clear download button or success message found">>,
                                        "final_state", ocr))]

\* dict.get("ocr_text", "No OCR text available") of a step's or the local metadata
OcrTextOf(meta) == IF meta = "None" THEN "No OCR text available" ELSE meta

\* mutant: "before_conversion" is read from the metadata of the pre-convert
\* gate, kept under a name of its own
screenshots_ocr_KeepsGateText(first_step, meta) ==
    [initial |-> OcrTextOf(first_step.ocr_text),
     before_conversion |-> OcrTextOf(metadata),
     final |-> OcrTextOf(meta)]

\* screenshots_ocr: "initial" from test_result.steps[0].metadata,
\* "before_conversion" and "final" both from the local metadata, which step 7
\* has rebound to the final-state OCR text
screenshots_ocr(first_step, meta) ==
    [initial |-> OcrTextOf(first_step.ocr_text),
     before_conversion |-> OcrTextOf(meta),
     final |-> OcrTextOf(meta)]

\* Step 7, the rest of the try body: the summary call and the two assignments;
\* the outcome gains the values analysis and troubleshooting are assigned
CheckDownloadBody(fail, call, dom, summary) ==
    LET v == CheckDownloadVerdict(fail, call, dom)
        o == IF v.body_exc # None THEN v
             ELSE [v EXCEPT !.summary_in = screenshots_ocr(steps[1], v.meta)]
        unset == [assigned |-> FALSE, analysis |-> None, troubleshooting |-> None]
    IN  IF o.body_exc # None THEN [o |-> o, summary |-> unset]
        ELSE LET r == analyze_test_full(summary)
             IN  IF r.raised # "no"
                 THEN [o |-> Raise(o, <<r.raised>>), summary |-> unset]
                 ELSE IF r.value.kind # "dict"
                 THEN [o |-> Raise(o, AttributeError), summary |-> unset]
                 ELSE [o |-> o,
                       summary |->
                         [assigned |-> TRUE,
                          analysis |->
                            IF r.value.analysis = None
                            THEN <<"No analysis available">>
                            ELSE r.value.analysis,
                          troubleshooting |->
                            IF r.value.troubleshooting = None
                            THEN <<"No troubleshooting recommendations available">>
                            ELSE r.value.troubleshooting]]

\* mutant: an except clause without the final `raise`
CheckDownloadHandler_Swallow(o, handler_shot_ok) ==
    IF o.body_exc = None \/ ~handler_shot_ok THEN o
    ELSE [o EXCEPT !.added = add_step(@,
                       TestStep("check_download_availability", "error", o.body_exc,
                                "download_check_error", "None"))]

\* mutant: an except clause that records its error step whatever the message
CheckDownloadHandler_AlwaysStep(o, handler_shot_ok) ==
    IF o.body_exc = None THEN o
    ELSE HardHandler(o, "check_download_availability", "download_check_error",
                     handler_shot_ok)

\* Step 7, except clause: an error step unless the message holds "Conversion failed"
CheckDownloadHandler(o, handler_shot_ok) ==
    IF o.body_exc = None THEN o
    ELSE IF Contains(o.body_exc, "Conversion failed")
    THEN [o EXCEPT !.escaped = o.body_exc]
    ELSE HardHandler(o, "check_download_availability", "download_check_error",
                     handler_shot_ok)

(***************************************************************************)
(* The state machine of one run of execute_test.                           *)
(***************************************************************************)
LocatorIdle == [done |-> FALSE, found |-> 0, queried |-> <<>>]
ClassifierIdle == [fn |-> "none", raised |-> "no", value |-> NoValue]
\* the monitor's progress: seconds spent in the polling loop, polls made, seconds
\* of the fixed sleep, and what ended the loop ("hidden": the indicator is not
\* visible, "download": a Download element is there, "raised": a query threw,
\* "budget": the loop condition failed), and whether the locator of step 6 found
\* a progress indicator
NoProgress ==
    [elapsed |-> 0, polls |-> 0, slept |-> 0, stop |-> "none", indicator |-> FALSE]

\* what is remembered of a checkpoint: its name, the number of steps before it
\* and the number it appended, the exception raised inside its body and the one
\* that left it, what its gate said and was told, the primary actions it performed
LogEntry(name, o) ==
    [cp |-> name, before |-> Len(steps), added |-> Len(o.added),
     body_exc |-> o.body_exc, escaped |-> o.escaped, gate |-> o.gate,
     call |-> o.call, performed |-> o.performed, thrown |-> o.thrown,
     handler_shot |-> o.handler_shot, summary_in |-> o.summary_in,
     state |-> IF o.escaped # None THEN "raised" ELSE "completed"]

\* PlaywrightService entered (browser launched); execute_test not yet called
Init ==
    /\ pc = "execute_test"
    /\ clock = 0
    /\ context = FALSE
    /\ close_attempts = 0
    /\ steps = <<>>
    /\ start_time = NoTime
    /\ end_time = NoTime
    /\ overall_status = "pending"
    /\ analysis = None
    /\ troubleshooting = None
    /\ assignments = <<>>
    /\ report = "pending"
    /\ screenshot_path = "None"
    /\ metadata = "None"
    /\ exc = None
    /\ progress = NoProgress
    /\ log = <<>>
    /\ last = [cp |-> "none", before |-> 0, added |-> 0, body_exc |-> None,
               escaped |-> None, gate |-> "none", call |-> NoCall,
               performed |-> {}, thrown |-> {}, handler_shot |-> "none",
               summary_in |-> NoSummaryInput, state |-> "none"]
    /\ complete_calls = <<>>
    /\ cl_in = NoContent
    /\ cl_out = ClassifierIdle
    /\ loc_in = <<>>
    /\ loc_out = LocatorIdle
    /\ happy = TRUE
    /\ close_log = <<>>
    /\ ocr_in = NoImage
    /\ ocr_out = OcrIdle

\* time passes between two statements of the run
Tick ==
    /\ pc # "returned"
    /\ clock < MaxClock
    /\ clock' = clock + 1
    /\ UNCHANGED <<pc, context, close_attempts, steps, start_time,
                   end_time, overall_status, analysis, troubleshooting, assignments, report, screenshot_path, metadata, exc, progress, log, last,
                   complete_calls, cl_in, cl_out, loc_in, loc_out, happy, close_log, ocr_in, ocr_out>>

\* mutant: complete() that records the status and leaves end_time alone
complete_NoEndTime(status) ==
    /\ end_time' = end_time
    /\ overall_status' = status
    /\ complete_calls' = Append(complete_calls, status)

\* TestResult.complete
complete(status) ==
    /\ end_time' = clock
    /\ overall_status' = status
    /\ complete_calls' = Append(complete_calls, status)

\* execute_test: setup_logger and the TestResult(...) construction
CreateTestResult ==
    /\ pc = "execute_test"
    /\ pc' = "create_page"
    /\ start_time' = clock
    /\ steps' = <<>>
    /\ UNCHANGED <<clock, context, close_attempts, end_time,
                   overall_status, analysis, troubleshooting, assignments, report, screenshot_path, metadata, exc, progress, log, last,
                   complete_calls, cl_in, cl_out, loc_in, loc_out, happy, close_log, ocr_in, ocr_out>>

\* execute_test: create_page.  fail "new_context"
\* throws before self.context is assigned, "new_page" after
CreatePage ==
    /\ pc = "create_page"
    /\ \E fail \in {"none", "new_context", "new_page"} :
          /\ context' = (fail # "new_context")
          /\ happy' = (happy /\ fail = "none")
          /\ IF fail = "none"
             THEN /\ pc' = "navigate_to_site"
                  /\ exc' = exc
             ELSE /\ pc' = "except"
                  /\ exc' = BrowserError(fail)
    /\ UNCHANGED <<clock, close_attempts, steps, start_time, end_time,
                   overall_status, analysis, troubleshooting, assignments, report, screenshot_path,
                   metadata, progress, log, last, complete_calls, cl_in, cl_out, loc_in, loc_out, close_log, ocr_in, ocr_out, report>>

\* mutant: the try statement of click_convert_button is missing
After_SkipConvert(name) ==
    CASE name = "navigate_to_site" -> "click_url_link"
      [] name = "click_url_link" -> "input_youtube_url"
      [] name = "input_youtube_url" -> "select_mp4_format"
      [] name = "select_mp4_format" -> "wait_for_conversion"
      [] name = "click_convert_button" -> "wait_for_conversion"
      [] name = "wait_for_conversion" -> "check_download_availability"
      [] OTHER -> "test_func_returned"

\* the try statement that follows the try statement of checkpoint `name`
After(name) ==
    CASE name = "navigate_to_site" -> "click_url_link"
      [] name = "click_url_link" -> "input_youtube_url"
      [] name = "input_youtube_url" -> "select_mp4_format"
      [] name = "select_mp4_format" -> "click_convert_button"
      [] name = "click_convert_button" -> "wait_for_conversion"
      [] name = "wait_for_conversion" -> "check_download_availability"
      [] OTHER -> "test_func_returned"

\* mutant: the exception that leaves a checkpoint is dropped and the test
\* function goes on
Leave_Continue(o, next) ==
    /\ steps' = steps \o o.added
    /\ screenshot_path' = o.shot
    /\ metadata' = o.meta
    /\ pc' = next
    /\ exc' = exc

\* what a checkpoint leaves behind: its steps, the locals, and either the
\* statement `next` or the exception on its way to execute_test
Leave(o, next) ==
    /\ steps' = steps \o o.added
    /\ screenshot_path' = o.shot
    /\ metadata' = o.meta
    /\ IF o.escaped # None
       THEN pc' = "except" /\ exc' = o.escaped
       ELSE pc' = next /\ exc' = exc

\* a checkpoint that runs as one action; clean: every browser call it made
\* returned, its locator found an element, its verdict was "no error"
Checkpoint(name, o, clean) ==
    /\ Leave(o, After(name))
    /\ last' = LogEntry(name, o)
    /\ log' = Append(log, [cp |-> name, state |-> LogEntry(name, o).state])
    /\ happy' = (happy /\ clean)
    /\ UNCHANGED <<clock, context, close_attempts, start_time,
                   end_time, overall_status, progress, complete_calls,
                   cl_in, cl_out, loc_in, loc_out, close_log, ocr_in, ocr_out, report>>

\* the verdict {error: false} of a gate, and {error: false,
\* download_available: true} of the final check
SaysNoError(r) == r.raised = "no" /\ r.value.kind = "dict" /\ r.value.error = "false"
SaysDownloadAvailable(r) == SaysNoError(r) /\ r.value.download_available = "true"

NoSummary == UNCHANGED <<analysis, troubleshooting, assignments>>

\* an input that is read only when `used` holds
When(used, values, unused) == IF used THEN values ELSE {unused}

Step1 ==
    /\ pc = "navigate_to_site"
    /\ NoSummary
    /\ \E fail \in {"none", "goto", "wait_for_load_state", "take_screenshot"} :
       \E call \in When(fail = "none", RunCalls, Raises) :
          Checkpoint("navigate_to_site", navigate_to_site(fail, call),
                     fail = "none" /\ SaysNoError(check_screenshot_for_errors(call)))

Step2 ==
    /\ pc = "click_url_link"
    /\ NoSummary
    /\ \E fail \in {"none", "wait_for_load_state", "query_selector_all",
                    "inner_text", "take_screenshot"},
          outs \in SelectorOutcomes(NUrlLinkSelectors) :
       \E fallback \in When(FirstHit(outs) = 0 /\ fail \in {"none", "take_screenshot"},
                            BOOLEAN, FALSE),
          click_ok \in When(fail \in {"none", "take_screenshot"}, BOOLEAN, TRUE),
          handler_shot_ok \in BOOLEAN :
          Checkpoint("click_url_link",
                     click_url_link(fail, outs, fallback, click_ok, handler_shot_ok),
                     fail = "none" /\ FirstHit(outs) # 0 /\ click_ok)

Step3 ==
    /\ pc = "input_youtube_url"
    /\ NoSummary
    /\ \E fail \in {"none", "evaluate"} :
       \E input_field_needed \in When(fail = "none", BOOLEAN, FALSE),
          handler_shot_ok \in When(fail # "none", BOOLEAN, TRUE) :
          Checkpoint("input_youtube_url",
                     input_youtube_url(fail, input_field_needed, handler_shot_ok),
                     fail = "none")

Step4 ==
    /\ pc = "select_mp4_format"
    /\ NoSummary
    /\ \E fail \in {"none", "wait_for_load_state", "click", "take_screenshot"},
          outs \in SelectorOutcomes(NFormatSelectors) :
       \E handler_shot_ok \in When(fail # "none", BOOLEAN, TRUE) :
          Checkpoint("select_mp4_format",
                     select_mp4_format(fail, outs, handler_shot_ok),
                     fail = "none" /\ FirstHit(outs) # 0)

Step5 ==
    /\ pc = "click_convert_button"
    /\ NoSummary
    /\ \E fail \in {"none", "take_screenshot", "query_selector_all", "inner_text",
                    "click", "evaluate", "take_screenshot_after"} :
       \E call \in When(fail # "take_screenshot", RunCalls, Raises) :
       \E outs \in When(check_screenshot_for_errors(call).value.error # "true",
                        SelectorOutcomes(NConvertButtonSelectors),
                        AllMiss(NConvertButtonSelectors)) :
       \E fallback \in When(FirstHit(outs) = 0, BOOLEAN, FALSE) :
       \E js_result \in When(FirstHit(outs) = 0 /\ ~fallback, BOOLEAN, FALSE),
          handler_shot_ok \in BOOLEAN :
          Checkpoint("click_convert_button",
                     click_convert_button(fail, call, outs, fallback, js_result,
                                          handler_shot_ok),
                     /\ fail = "none"
                     /\ FirstHit(outs) # 0
                     /\ SaysNoError(check_screenshot_for_errors(call)))

\* Step 6 up to the polling loop (an indicator was found) or through the fixed
\* sleep (none was)
Step6 ==
    /\ pc = "wait_for_conversion"
    /\ NoSummary
    /\ \E fail \in {"none", "wait_for_load_state", "take_screenshot"},
          outs \in SelectorOutcomes(NProgressSelectors) :
       \E handler_shot_ok \in When(fail # "none", BOOLEAN, TRUE) :
          LET o == WaitHandler(WaitForConversionBody(fail, outs), handler_shot_ok)
              e == [LogEntry("wait_for_conversion", o) EXCEPT
                      !.state = IF o.escaped # None THEN "raised" ELSE "running"]
          IN  /\ Leave(o, IF FirstHit(outs) # 0 THEN "poll" ELSE "wait_end")
              /\ last' = e
              /\ log' = Append(log, [cp |-> e.cp, state |-> e.state])
              /\ progress' = IF o.body_exc = None /\ FirstHit(outs) = 0
                             THEN [NoProgress EXCEPT !.slept = FallbackSleep]
                             ELSE [NoProgress EXCEPT
                                     !.indicator = /\ fail # "wait_for_load_state"
                                                   /\ FirstHit(outs) # 0]
              /\ happy' = (happy /\ fail = "none" /\ FirstHit(outs) # 0)
    /\ UNCHANGED <<clock, context, close_attempts, start_time,
                   end_time, overall_status, complete_calls,
                   cl_in, cl_out, loc_in, loc_out, close_log, ocr_in, ocr_out, report>>

\* what takes the run out of the loop body: if not progress_indicator.is_visible():
\* break; if download_element: break; a query that throws
PollStop(visible, download) ==
    CASE visible = "raise" -> "raised"
      [] visible = "hidden" -> "hidden"
      [] download = "raise" -> "raised"
      [] download = "found" -> "download"
      [] OTHER -> "none"

\* mutant: the loop sleeps one second between polls
PollBody_ShortSleep(p, visible, download, call_time) ==
    IF visible = "visible" /\ download = "none"
    THEN [next |-> "poll",
          progress |-> [p EXCEPT !.polls = @ + 1, !.elapsed = @ + call_time + 1]]
    ELSE [next |-> "wait_end",
          progress |-> [p EXCEPT !.polls = @ + 1, !.elapsed = @ + call_time,
                                 !.stop = PollStop(visible, download)]]

\* mutant: the loop looks at the indicator only and never queries the Download
\* element
PollBody_IndicatorOnly(p, visible, download, call_time) ==
    IF visible = "visible"
    THEN [next |-> "poll",
          progress |-> [p EXCEPT !.polls = @ + 1,
                                 !.elapsed = @ + call_time + PollSleep]]
    ELSE [next |-> "wait_end",
          progress |-> [p EXCEPT !.polls = @ + 1, !.elapsed = @ + call_time,
                                 !.stop = PollStop(visible, download)]]

\* mutant: the loop has no try around it, so what a query raises leaves the
\* checkpoint body
PollBody_NoTry(p, visible, download, call_time) ==
    IF visible = "visible" /\ download = "none"
    THEN [next |-> "poll",
          progress |-> [p EXCEPT !.polls = @ + 1,
                                 !.elapsed = @ + call_time + PollSleep]]
    ELSE [next |-> IF PollStop(visible, download) = "raised"
                   THEN "except" ELSE "wait_end",
          progress |-> [p EXCEPT !.polls = @ + 1, !.elapsed = @ + call_time,
                                 !.stop = PollStop(visible, download)]]

\* the body of the while loop: is_visible, query_selector, time.sleep(5).  The
\* two queries take call_time seconds together; what they raise is caught by the
\* try around the loop, which ends it
PollBody(p, visible, download, call_time) ==
    IF visible = "visible" /\ download = "none"
    THEN [next |-> "poll",
          progress |-> [p EXCEPT !.polls = @ + 1,
                                 !.elapsed = @ + call_time + PollSleep]]
    ELSE [next |-> "wait_end",
          progress |-> [p EXCEPT !.polls = @ + 1, !.elapsed = @ + call_time,
                                 !.stop = PollStop(visible, download)]]

\* one iteration of: while time.time() - start_time < max_wait_time
PollIteration ==
    /\ pc = "poll"
    /\ progress.elapsed < max_wait_time
    /\ \E visible \in {"visible", "hidden", "raise"},
          download \in {"none", "found", "raise"},
          call_time \in {0, MaxCallTime} :
          /\ pc' = PollBody(progress, visible, download, call_time).next
          /\ progress' = PollBody(progress, visible, download, call_time).progress
          /\ happy' = (happy /\ visible # "raise" /\ download # "raise")
    /\ UNCHANGED <<clock, context, close_attempts, steps, start_time,
                   end_time, overall_status, analysis, troubleshooting, assignments, report, screenshot_path, metadata, exc, log, last, complete_calls,
                   cl_in, cl_out, loc_in, loc_out, close_log, ocr_in, ocr_out>>

\* the loop condition fails: the budget is used up
PollTimeout ==
    /\ pc = "poll"
    /\ progress.elapsed >= max_wait_time
    /\ pc' = "wait_end"
    /\ progress' = [progress EXCEPT !.stop = "budget"]
    /\ UNCHANGED <<clock, context, close_attempts, steps, start_time,
                   end_time, overall_status, analysis, troubleshooting, assignments, report, screenshot_path, metadata, exc, log, last,
                   complete_calls, cl_in, cl_out, loc_in, loc_out, happy, close_log, ocr_in, ocr_out>>

\* Step 6 after the loop or the sleep
Step6End ==
    /\ pc = "wait_end"
    /\ NoSummary
    /\ \E fail \in {"none", "take_screenshot"} :
       \E handler_shot_ok \in When(fail # "none", BOOLEAN, TRUE) :
          LET o == WaitHandler(WaitForConversionEnd(fail), handler_shot_ok)
              e == LogEntry("wait_for_conversion", o)
          IN  /\ Leave(o, After("wait_for_conversion"))
              /\ last' = [last EXCEPT !.added = @ + e.added,
                                      !.body_exc = e.body_exc,
                                      !.escaped = e.escaped,
                                      !.handler_shot = e.handler_shot,
                                      !.state = e.state]
              /\ log' = [log EXCEPT ![Len(log)].state = e.state]
              /\ happy' = (happy /\ fail = "none")
    /\ progress' = [NoProgress EXCEPT !.indicator = progress.indicator]
    /\ UNCHANGED <<clock, context, close_attempts, start_time,
                   end_time, overall_status, complete_calls,
                   cl_in, cl_out, loc_in, loc_out, close_log, ocr_in, ocr_out, report>>

\* the outcomes of the summary call that a run is checked against
SummaryCalls ==
    {Raises, Text(<<"{", "a", ",", "t", "}">>), Text(<<"{", "}">>),
     Text(<<"x">>), Text(<<"n">>)}

DomOutcomes == [download : BOOLEAN, success : BOOLEAN, error : BOOLEAN]
NoDom == [download |-> FALSE, success |-> FALSE, error |-> FALSE]

Step7 ==
    /\ pc = "check_download_availability"
    /\ \E fail \in {"none", "wait_for_load_state", "take_screenshot",
                    "query_selector", "is_visible", "inner_text"} :
       \E call \in When(fail \notin {"wait_for_load_state", "take_screenshot"},
                        RunCalls, Raises) :
       \E dom \in When(/\ check_final_state(call).value.error # "true"
                       /\ check_final_state(call).value.download_available # "true"
                       /\ fail \in {"none", "inner_text"},
                       DomOutcomes, NoDom) :
       \E summary \in When(fail = "none", SummaryCalls, Raises),
          handler_shot_ok \in BOOLEAN :
          LET b == CheckDownloadBody(fail, call, dom, summary)
          IN  /\ Checkpoint("check_download_availability",
                            CheckDownloadHandler(b.o, handler_shot_ok),
                            /\ fail = "none"
                            /\ handler_shot_ok
                            /\ SaysDownloadAvailable(check_final_state(call)))
              /\ IF b.summary.assigned
                 THEN /\ analysis' = b.summary.analysis
                      /\ troubleshooting' = b.summary.troubleshooting
                      /\ assignments' = Append(assignments, "analyze_test_full")
                 ELSE NoSummary

\* mutant: a statement after complete("success"), still inside the try, throws
CompleteSuccess_ThenRaises ==
    /\ pc = "test_func_returned"
    /\ complete("success")
    /\ pc' = "except"
    /\ UNCHANGED <<clock, context, close_attempts, steps, start_time,
                   analysis, troubleshooting, assignments, report, screenshot_path, metadata,
                   exc, progress, log, last, cl_in, cl_out, loc_in, loc_out, happy, close_log, ocr_in, ocr_out>>

\* execute_test: time.sleep(5); test_result.complete("success")
CompleteSuccess ==
    /\ pc = "test_func_returned"
    /\ complete("success")
    /\ pc' = "finally"
    /\ UNCHANGED <<clock, context, close_attempts, steps, start_time,
                   analysis, troubleshooting, assignments, report, screenshot_path, metadata,
                   exc, progress, log, last, cl_in, cl_out, loc_in, loc_out, happy, close_log, ocr_in, ocr_out>>

\* mutant: the except clause completes the run without recording a step
HandleException_NoStep ==
    /\ pc = "except"
    /\ steps' = steps
    /\ complete("error")
    /\ pc' = "finally"
    /\ UNCHANGED <<clock, context, close_attempts, start_time,
                   analysis, troubleshooting, assignments, report, screenshot_path,
                   metadata, exc, progress, log, last, cl_in, cl_out, loc_in,
                   loc_out, happy, close_log, ocr_in, ocr_out>>

\* execute_test: except Exception as e
HandleException ==
    /\ pc = "except"
    /\ steps' = add_step(steps, TestStep("test_execution_failed", "error", exc,
                                         "None", "None"))
    /\ complete("error")
    /\ pc' = "finally"
    /\ UNCHANGED <<clock, context, close_attempts, start_time,
                   analysis, troubleshooting, assignments, report, screenshot_path, metadata,
                   exc, progress, log, last, cl_in, cl_out, loc_in, loc_out, happy, close_log, ocr_in, ocr_out>>

\* the grace delay before the context is closed
GraceDelay == 3

\* mutant: the context is closed at the end of the try body instead of in a
\* finally clause, so a run that raised returns without closing it
FinallyClause_AfterSuccessOnly(close_ok) ==
    IF context /\ overall_status = "success"
    THEN <<[do |-> "sleep", seconds |-> GraceDelay]>>
         \o (IF close_ok
             THEN <<[do |-> "close", seconds |-> 0]>>
             ELSE <<[do |-> "close", seconds |-> 0], [do |-> "log_error", seconds |-> 0]>>)
    ELSE <<>>

\* finally: if self.context: time.sleep(3); try: self.context.close()
\* except Exception: logger.error(...)
FinallyClause(close_ok) ==
    IF context
    THEN <<[do |-> "sleep", seconds |-> GraceDelay]>>
         \o (IF close_ok
             THEN <<[do |-> "close", seconds |-> 0]>>
             ELSE <<[do |-> "close", seconds |-> 0], [do |-> "log_error", seconds |-> 0]>>)
    ELSE <<>>

\* execute_test: the finally clause and the return.  A close() that throws is
\* logged
Finally ==
    /\ pc = "finally"
    /\ \E close_ok \in BOOLEAN :
          /\ close_log' = FinallyClause(close_ok)
          /\ close_attempts' =
                 close_attempts
                 + Cardinality({i \in 1..Len(FinallyClause(close_ok)) :
                                   FinallyClause(close_ok)[i].do = "close"})
    /\ pc' = "returned"
    /\ UNCHANGED <<clock, context, steps, start_time, end_time,
                   overall_status, analysis, troubleshooting, assignments, report, screenshot_path, metadata, exc, progress, log, last,
                   complete_calls, cl_in, cl_out, loc_in, loc_out, happy, ocr_in, ocr_out>>

\* the Run Test handler of app.py after execute_test has returned:
\* analyzed_result = groq_service.analyze_test_results(test_result)
AnalyzeTestResults ==
    /\ pc = "returned"
    /\ report = "pending"
    /\ \E call \in When(screenshot_data(steps) # <<>>, SummaryCalls, Raises) :
          LET r == analyze_test_results(steps, call)
          IN  /\ analysis' = r.analysis
              /\ troubleshooting' = r.troubleshooting
              /\ assignments' = Append(assignments, r.by)
    /\ report' = "analyzed"
    /\ UNCHANGED <<pc, clock, context, close_attempts, steps, start_time,
                   end_time, overall_status, screenshot_path, metadata, exc,
                   progress, log, last, complete_calls, cl_in, cl_out, loc_in,
                   loc_out, happy, close_log, ocr_in, ocr_out>>

Next ==
    \/ Tick
    \/ CreateTestResult
    \/ CreatePage
    \/ Step1
    \/ Step2
    \/ Step3
    \/ Step4
    \/ Step5
    \/ Step6
    \/ PollIteration
    \/ PollTimeout
    \/ Step6End
    \/ Step7
    \/ CompleteSuccess
    \/ HandleException
    \/ Finally
    \/ AnalyzeTestResults

Spec == Init /\ [][Next]_vars

\* a run whose polling loop is not suspended forever: the interpreter goes on
\* to the next iteration, and leaves the loop when its condition fails
SpecPolling == Spec /\ WF_vars(PollIteration) /\ WF_vars(PollTimeout)

(***************************************************************************)
(* The classifier functions on their own: every outcome of the             *)
(* language-model call, every completion of at most MaxLen tokens.         *)
(***************************************************************************)
ClassifierCalls == {Raises, NoContent} \cup {Text(c) : c \in Completions}

InitClassifier ==
    /\ pc = "classifier"
    /\ clock = 0
    /\ context = FALSE
    /\ close_attempts = 0
    /\ steps = <<>>
    /\ start_time = NoTime
    /\ end_time = NoTime
    /\ overall_status = "pending"
    /\ analysis = None
    /\ troubleshooting = None
    /\ assignments = <<>>
    /\ report = "pending"
    /\ screenshot_path = "None"
    /\ metadata = "None"
    /\ exc = None
    /\ progress = NoProgress
    /\ log = <<>>
    /\ last = [cp |-> "none", before |-> 0, added |-> 0, body_exc |-> None,
               escaped |-> None, gate |-> "none", call |-> NoCall,
               performed |-> {}, thrown |-> {}, handler_shot |-> "none",
               summary_in |-> NoSummaryInput, state |-> "none"]
    /\ complete_calls = <<>>
    /\ cl_in \in ClassifierCalls
    /\ cl_out = ClassifierIdle
    /\ loc_in = <<>>
    /\ loc_out = LocatorIdle
    /\ happy = TRUE
    /\ close_log = <<>>
    /\ ocr_in = NoImage
    /\ ocr_out = OcrIdle

Returned(fn, r) == [fn |-> fn, raised |-> r.raised, value |-> r.value]

CheckScreenshotForErrors ==
    /\ pc = "classifier"
    /\ cl_out = ClassifierIdle
    /\ cl_out' = Returned("check_screenshot_for_errors",
                          check_screenshot_for_errors(cl_in))
    /\ UNCHANGED <<pc, clock, context, close_attempts, steps, start_time, end_time,
                   overall_status, analysis, troubleshooting, assignments, report, screenshot_path,
                   metadata, exc, progress, log, last, complete_calls, cl_in, loc_in, loc_out, happy, close_log, ocr_in, ocr_out>>

CheckFinalState ==
    /\ pc = "classifier"
    /\ cl_out = ClassifierIdle
    /\ cl_out' = Returned("check_final_state", check_final_state(cl_in))
    /\ UNCHANGED <<pc, clock, context, close_attempts, steps, start_time, end_time,
                   overall_status, analysis, troubleshooting, assignments, report, screenshot_path,
                   metadata, exc, progress, log, last, complete_calls, cl_in, loc_in, loc_out, happy, close_log, ocr_in, ocr_out>>

NextClassifier == CheckScreenshotForErrors \/ CheckFinalState

SpecClassifier == InitClassifier /\ [][NextClassifier]_vars

(***************************************************************************)
(* The selector loops on their own: a list of strategies, each of which    *)
(* matches ("hit"), returns nothing ("miss") or times out ("raise") when   *)
(* page.wait_for_selector is called with it.                               *)
(***************************************************************************)
\* the variables of a run, at rest while a function is examined on its own
RunAtRest ==
    /\ clock = 0
    /\ context = FALSE
    /\ close_attempts = 0
    /\ steps = <<>>
    /\ start_time = NoTime
    /\ end_time = NoTime
    /\ overall_status = "pending"
    /\ analysis = None
    /\ troubleshooting = None
    /\ assignments = <<>>
    /\ report = "pending"
    /\ screenshot_path = "None"
    /\ metadata = "None"
    /\ exc = None
    /\ progress = NoProgress
    /\ log = <<>>
    /\ last = [cp |-> "none", before |-> 0, added |-> 0, body_exc |-> None,
               escaped |-> None, gate |-> "none", call |-> NoCall,
               performed |-> {}, thrown |-> {}, handler_shot |-> "none",
               summary_in |-> NoSummaryInput, state |-> "none"]
    /\ complete_calls = <<>>
    /\ happy = TRUE
    /\ close_log = <<>>

StrategyLists ==
    UNION {[1..n -> {"hit", "miss", "raise"}] : n \in 0..MaxSelectors}

InitLocator ==
    /\ pc = "locator"
    /\ RunAtRest
    /\ cl_in = NoContent
    /\ cl_out = ClassifierIdle
    /\ loc_in \in StrategyLists
    /\ loc_out = LocatorIdle
    /\ ocr_in = NoImage
    /\ ocr_out = OcrIdle

\* for selector in selectors: ... (one of the four loops, run to its end)
RunSelectorLoop ==
    /\ pc = "locator"
    /\ ~loc_out.done
    /\ loc_out' = [done |-> TRUE, found |-> SelectorLoop(loc_in).found,
                   queried |-> SelectorLoop(loc_in).queried]
    /\ UNCHANGED <<pc, clock, context, close_attempts, steps, start_time, end_time,
                   overall_status, analysis, troubleshooting, assignments, report, screenshot_path,
                   metadata, exc, progress, log, last, complete_calls, cl_in,
                   cl_out, loc_in, happy, close_log, ocr_in, ocr_out>>

NextLocator == RunSelectorLoop

SpecLocator == InitLocator /\ [][NextLocator]_vars

(***************************************************************************)
(* extract_text_from_image on its own, followed by the lines of the gate   *)
(* that call it and hand its result to the classifier.                     *)
(***************************************************************************)
OcrTexts == UNION {[1..n -> OcrChars] : n \in 0..MaxOcrLen}
Images ==
    {NoImage}
    \cup {[exists |-> TRUE, fail |-> "none", text |-> t, message |-> <<>>] :
             t \in OcrTexts}
    \cup {[exists |-> TRUE, fail |-> f, text |-> <<>>, message |-> m] :
             f \in {"open", "image_to_string", "close"},
             m \in {<<"a">>, <<"a", "e_acute">>, <<>>}}

InitOcr ==
    /\ pc = "ocr"
    /\ RunAtRest
    /\ cl_in = NoContent
    /\ cl_out = ClassifierIdle
    /\ loc_in = <<>>
    /\ loc_out = LocatorIdle
    /\ ocr_in \in Images
    /\ ocr_out = OcrIdle

OcrUnchanged ==
    UNCHANGED <<clock, context, close_attempts, steps, start_time, end_time,
                overall_status, analysis, troubleshooting, assignments, report, screenshot_path,
                metadata, exc, progress, log, last, complete_calls, cl_in,
                cl_out, loc_in, loc_out, happy, close_log, ocr_in>>

\* ocr_text = extract_text_from_image(screenshot_path): an exception that
\* leaves the function leaves the gate as well
CallExtractText ==
    /\ pc = "ocr"
    /\ ~ocr_out.done
    /\ ocr_out' = [ocr_out EXCEPT !.done = TRUE,
                                  !.raised = ExtractText(ocr_in).raised,
                                  !.value = ExtractText(ocr_in).value]
    /\ pc' = IF ExtractText(ocr_in).raised THEN "ocr_raised" ELSE "ocr_gate"
    /\ OcrUnchanged

\* error_result = groq_service.check_screenshot_for_errors(ocr_text, ...)
GateCallsClassifier ==
    /\ pc = "ocr_gate"
    /\ ocr_out' = [ocr_out EXCEPT !.gate_called = TRUE, !.gate_text = ocr_out.value]
    /\ pc' = "ocr_done"
    /\ OcrUnchanged

NextOcr == CallExtractText \/ GateCallsClassifier

SpecOcr == InitOcr /\ [][NextOcr]_vars

(***************************************************************************)
(* The claims.                                                             *)
(***************************************************************************)
CheckpointOrder ==
    <<"navigate_to_site", "click_url_link", "input_youtube_url", "select_mp4_format",
      "click_convert_button", "wait_for_conversion", "check_download_availability">>
CheckpointNames == {CheckpointOrder[i] : i \in 1..Len(CheckpointOrder)}
HardCheckpoints == CheckpointNames \ {"select_mp4_format"}
IndexOf(name) == CHOOSE i \in 1..Len(CheckpointOrder) : CheckpointOrder[i] = name

\* the steps the checkpoint that ran last appended
LastAdded == (last.before + 1)..(last.before + last.added)

\* C1: once execute_test has returned, overall_status is 'success' or 'error',
\* end_time is set, and end_time >= start_time.
C1_TerminalStatusAndEndTime ==
    pc = "returned" =>
        /\ overall_status \in {"success", "error"}
        /\ end_time # NoTime
        /\ end_time >= start_time

C1_Witness ==
    /\ pc = "returned"
    /\ overall_status = "error"
    /\ last.state = "raised"
    /\ end_time > start_time

\* C2: overall_status is 'success' only when all seven checkpoints completed in
\* order, the last of them check_download_availability, whose body raised
\* nothing and recorded a check_download_availability step.
C2_SuccessOnlyAfterVerifyDownload ==
    overall_status = "success" =>
        /\ Len(log) = Len(CheckpointOrder)
        /\ \A i \in 1..Len(log) :
              log[i].cp = CheckpointOrder[i] /\ log[i].state = "completed"
        /\ last.cp = "check_download_availability"
        /\ last.body_exc = None
        /\ last.escaped = None
        /\ \E k \in LastAdded :
              /\ steps[k].name = "check_download_availability"
              /\ steps[k].status \in {"success", "warning"}

C2_Witness ==
    /\ pc = "returned"
    /\ overall_status = "success"
    /\ steps[Len(steps)].name = "check_download_availability"
    /\ steps[Len(steps)].status = "success"

\* C3: once an exception has left a checkpoint, that checkpoint is the last one
\* started, no step but execute_test's own test_execution_failed step is
\* recorded after its steps, and the Test Result is completed with 'error'.
C3_FirstEscapeEndsRun ==
    \A i \in 1..Len(log) :
        log[i].state = "raised" =>
            /\ i = Len(log)
            /\ last.cp = log[i].cp
            /\ last.escaped # None
            /\ pc \in {"except", "finally", "returned"}
            /\ IF pc = "except"
               THEN /\ Len(steps) = last.before + last.added
                    /\ overall_status = "pending"
               ELSE /\ Len(steps) = last.before + last.added + 1
                    /\ steps[Len(steps)].name = "test_execution_failed"
                    /\ overall_status = "error"

C3_Witness ==
    /\ pc = "returned"
    /\ last.cp = "click_url_link"
    /\ last.state = "raised"
    /\ overall_status = "error"

\* C4 (as claimed): whenever an exception is raised inside the body of a hard
\* checkpoint, the checkpoint appends exactly one step with status 'error',
\* that step carries the exception's message, and that exception is the one
\* raised to execute_test.
C4_OneErrorStepThenReraise ==
    (last.cp \in HardCheckpoints /\ last.body_exc # None) =>
        /\ Cardinality({k \in LastAdded : steps[k].status = "error"}) = 1
        /\ \A k \in LastAdded :
              steps[k].status = "error" => steps[k].error_message = last.body_exc
        /\ last.escaped = last.body_exc

\* C5 (as claimed): whenever an exception is raised inside select_mp4_format,
\* exactly one step, named select_mp4_format with status 'warning', is
\* appended, nothing is raised, and click_convert_button is next.
C5_FormatFailureIsWarning ==
    (last.cp = "select_mp4_format" /\ last.body_exc # None) =>
        /\ last.added = 1
        /\ steps[last.before + 1].name = "select_mp4_format"
        /\ steps[last.before + 1].status = "warning"
        /\ last.escaped = None
        /\ pc = "click_convert_button"

\* C6: the checkpoint bodies start in the fixed order, each after every earlier
\* one has completed, none skipped, none twice; the checkpoint names among the
\* recorded steps appear in that order.
C6_FixedOrder ==
    /\ Len(log) <= Len(CheckpointOrder)
    /\ \A i \in 1..Len(log) : log[i].cp = CheckpointOrder[i]
    /\ \A i \in 1..(Len(log) - 1) : log[i].state = "completed"
    /\ pc \in CheckpointNames => pc = CheckpointOrder[Len(log) + 1]
    /\ pc \in {"poll", "wait_end"} => log[Len(log)].cp = "wait_for_conversion"
    /\ pc = "test_func_returned" => Len(log) = Len(CheckpointOrder)
    /\ \A i, j \in 1..Len(steps) :
          (i < j /\ steps[i].name \in CheckpointNames /\ steps[j].name \in CheckpointNames)
              => IndexOf(steps[i].name) <= IndexOf(steps[j].name)

C6_Witness ==
    /\ pc = "returned"
    /\ overall_status = "success"
    /\ Len(log) = Len(CheckpointOrder)
    /\ CheckpointNames \subseteq {steps[k].name : k \in 1..Len(steps)}

\* C7: TestResult.complete is called exactly once in a run: overall_status and
\* end_time are unset before that call, set by it, and never change afterwards;
\* a run that has returned is not started again.
C7_CompletedExactlyOnce ==
    /\ [](/\ Len(complete_calls) <= 1
          /\ pc \in {"finally", "returned"} => Len(complete_calls) = 1
          /\ overall_status = "pending" <=> complete_calls = <<>>
          /\ end_time = NoTime <=> complete_calls = <<>>)
    /\ [][/\ overall_status # "pending" =>
                (overall_status' = overall_status /\ end_time' = end_time)
          /\ pc = "returned" => pc' = "returned"]_vars

C7_Witness ==
    /\ pc = "returned"
    /\ complete_calls = <<"error">>
    /\ end_time # NoTime

\* what json.loads makes of the completion of a call that returned text
ParsedCompletion(call) == JsonLoads(ExtractJson(call.content))
CallFailed(call) == call.kind \in {"raise", "none"}
Unparseable(call) ==
    call.kind = "text" /\ ParsedCompletion(call).raised = "JSONDecodeError"

ExplicitNoError(call) ==
    /\ call.kind = "text"
    /\ ParsedCompletion(call).raised = "no"
    /\ ParsedCompletion(call).value.kind = "dict"
    /\ ParsedCompletion(call).value.error = "false"

\* C9 (as claimed): at the gates of checkpoints 1, 5 and 7 every classifier
\* outcome other than an explicit no-error verdict (a failed call, an
\* unparseable completion, a parsed value with no 'error' field) is treated as
\* 'error detected' and aborts the run.
C9_FailClosedAllOutcomes ==
    (last.call # NoCall /\ ~ExplicitNoError(last.call)) =>
        last.state = "raised" /\ last.escaped # None

PrimaryActions == {"goto", "convert_click", "js_trigger"}

\* C10 (as claimed): at checkpoints 1 and 5, when the gate reports an error the
\* checkpoint's primary action (navigation; convert click or JavaScript
\* trigger) is not performed.
C10_GateErrorBlocksPrimaryAction ==
    (last.cp \in {"navigate_to_site", "click_convert_button"} /\ last.gate = "error")
        => last.performed \cap PrimaryActions = {}

\* C10 (amended): at checkpoint 5, when the gate reports an error neither the
\* convert-button click nor the JavaScript trigger is performed; at checkpoint
\* 1 the navigation has been performed by the time the gate reports an error.
C10_GateErrorBlocksConvertOnly ==
    /\ (last.cp = "click_convert_button" /\ last.gate = "error")
          => last.performed \cap PrimaryActions = {}
    /\ (last.cp = "navigate_to_site" /\ last.gate = "error")
          => last.performed = {"goto"}

C10_Witness ==
    /\ pc = "returned"
    /\ last.cp = "click_convert_button"
    /\ last.gate = "error"
    /\ last.performed = {}

\* C11: in a selector loop the element kept is the one of the lowest-index
\* strategy that matches (0: none matches); the strategies queried are exactly
\* those up to and including it, each once, in order, and none after it.
C11_FirstMatchingStrategy ==
    loc_out.done =>
        LET hits == {i \in 1..Len(loc_in) : loc_in[i] = "hit"}
            last_queried == IF hits = {} THEN Len(loc_in) ELSE loc_out.found
        IN  /\ hits = {} => loc_out.found = 0
            /\ hits # {} => loc_out.found \in hits /\ \A j \in hits : loc_out.found <= j
            /\ loc_out.queried = [k \in 1..last_queried |-> k]

C11_Witness ==
    /\ loc_out.done
    /\ loc_in = <<"raise", "hit", "hit">>
    /\ loc_out.found = 2
    /\ loc_out.queried = <<1, 2>>

\* C12: once a progress indicator has been found the polling loop ends: it makes
\* at most 24 polls, and it is left less than one poll interval (the sleep and
\* the two queries of an iteration) after the 120-second budget, also when the
\* indicator stays visible and no download element appears.
C12_PollingTerminates ==
    /\ [](pc \in {"poll", "wait_end"} =>
            /\ progress.polls <= max_wait_time \div PollSleep
            /\ progress.elapsed < max_wait_time + PollSleep + MaxCallTime)
    /\ (pc = "poll") ~> (pc = "wait_end")

C12_Witness ==
    /\ pc = "wait_end"
    /\ progress.polls = max_wait_time \div PollSleep
    /\ progress.elapsed >= max_wait_time

\* scenario B: the run has returned after the pre-convert gate was told
\* {error: true, message: 'Conversion failed'}
ConversionFailedVerdict == Text(<<"{", "e:t", ",", "mc", "}">>)
PreConvertGateRefused ==
    /\ pc = "returned"
    /\ last.cp = "click_convert_button"
    /\ last.call = ConversionFailedVerdict
GateStepIsRecorded ==
    /\ last.added >= 1
    /\ steps[last.before + 1].name = "before_convert_button"
    /\ steps[last.before + 1].status = "error"
    /\ steps[last.before + 1].error_message = <<"Conversion failed">>

\* C13 (as claimed): in scenario B the test function raises, overall_status is
\* 'error', and the gate's error step (message equal to the classifier's) is
\* the last step of the Test Result.
C13_GateStepIsLast ==
    PreConvertGateRefused =>
        /\ last.state = "raised"
        /\ overall_status = "error"
        /\ GateStepIsRecorded
        /\ Len(steps) = last.before + 1

\* C13 (amended): in scenario B the test function raises, overall_status is
\* 'error' and the gate's error step carries the classifier's message; the only
\* steps after it are error steps about that same failure: the checkpoint
\* handler's click_convert_button step ('Pre-conversion error: ' + message,
\* recorded when its screenshot capture succeeds) and then execute_test's
\* test_execution_failed step, which is the last step and carries the message
\* of the exception that reached execute_test.
C13_GateStepThenFailureRecords ==
    /\ (last.cp = "click_convert_button" /\ last.call = ConversionFailedVerdict) =>
          /\ last.state = "raised"
          /\ last.gate = "error"
          /\ last.performed = {}
          /\ GateStepIsRecorded
          /\ last.added \in {1, 2}
          /\ pc \in {"except", "finally", "returned"}
    /\ PreConvertGateRefused =>
          /\ overall_status = "error"
          /\ Len(steps) = last.before + last.added + 1
          /\ last.added = 2 =>
                /\ steps[last.before + 2].name = "click_convert_button"
                /\ steps[last.before + 2].status = "error"
                /\ steps[last.before + 2].error_message =
                       <<"Pre-conversion error", "Conversion failed">>
                /\ last.escaped = <<"Pre-conversion error", "Conversion failed">>
          /\ steps[Len(steps)].name = "test_execution_failed"
          /\ steps[Len(steps)].status = "error"
          /\ steps[Len(steps)].error_message = last.escaped

C13_Witness ==
    /\ PreConvertGateRefused
    /\ GateStepIsRecorded
    /\ Len(steps) = last.before + 3
    /\ steps[Len(steps)].error_message = <<"Pre-conversion error", "Conversion failed">>

\* C14 (as claimed): when no format-selector strategy matches and no browser
\* call of the checkpoint raises, select_mp4_format records exactly one step,
\* with status 'warning', and the run proceeds to click_convert_button.
C14_LocatorMissIsWarning ==
    (/\ last.cp = "select_mp4_format"
     /\ last.body_exc = None
     /\ "format_click" \notin last.performed) =>
        /\ last.added = 1
        /\ steps[last.before + 1].name = "select_mp4_format"
        /\ steps[last.before + 1].status = "warning"
        /\ last.escaped = None
        /\ pc = "click_convert_button"

\* the steps that record a failure
FailureSteps == {k \in 1..Len(steps) : steps[k].status \in {"error", "failure"}}

\* C15 (as claimed): a run in which every locator found an element, no browser
\* call raised, every gate was told {error: false} and the final check
\* {error: false, download_available: true} ends with overall_status
\* 'success', at least 7 steps, and no step with status 'error' or 'failure'.
C15_HappyPathSucceeds ==
    (pc = "returned" /\ happy) =>
        /\ overall_status = "success"
        /\ Len(steps) >= 7
        /\ FailureSteps = {}

\* C16: overall_status = 'success' implies that no recorded step has status
\* 'error' or 'failure'; once such a step is recorded an exception is on its way
\* to, or has reached, execute_test, and the status never becomes 'success'.
C16_SuccessHasNoFailureStep ==
    /\ overall_status = "success" => FailureSteps = {}
    /\ FailureSteps # {} =>
          /\ pc \in {"except", "finally", "returned"}
          /\ exc # None
          /\ overall_status \in {"pending", "error"}

C16_Witness ==
    /\ pc = "returned"
    /\ overall_status = "success"
    /\ FailureSteps = {}
    /\ \E k \in 1..Len(steps) : steps[k].status = "warning"

\* C17 (as claimed): whenever the browser action of a hard checkpoint throws
\* (the navigation at checkpoint 1, the click dispatched on the URL link at
\* checkpoint 2, the convert-button click at checkpoint 5), the checkpoint
\* records an 'error' step and no 'success' step, and the exception is
\* re-raised, which ends the run.
C17_ThrownActionIsError ==
    (last.thrown \cap {"goto", "url_link_click", "convert_click"} # {}) =>
        /\ \E k \in LastAdded : steps[k].name = last.cp /\ steps[k].status = "error"
        /\ \A k \in LastAdded : steps[k].status # "success"
        /\ last.state = "raised"
        /\ pc \in {"except", "finally", "returned"}

\* C18 (as claimed): in the failure handler of a hard checkpoint, when the
\* capture of the error screenshot fails, the original exception is still the
\* one that reaches execute_test and the checkpoint's error step is still
\* recorded with the original exception's message.
C18_CaptureFailureDoesNotMask ==
    (last.cp \in HardCheckpoints /\ last.handler_shot = "failed") =>
        /\ last.escaped = last.body_exc
        /\ \E k \in LastAdded :
              /\ steps[k].name = last.cp
              /\ steps[k].status = "error"
              /\ steps[k].error_message = last.body_exc

\* the Test Result as execute_test returns it
ResultVars ==
    <<steps, start_time, end_time, overall_status, analysis, troubleshooting>>

\* C19: on every exit path of execute_test on which a browser context was
\* created, context.close() is attempted once before the return, after the
\* terminal status has been set and after the grace delay; a close() that
\* fails is logged, nothing is raised and the Test Result is left as it was.
C19_ContextClosedOnEveryExit ==
    /\ [](pc = "returned" =>
            /\ overall_status \in {"success", "error"}
            /\ context <=> close_log # <<>>
            /\ context =>
                  /\ close_attempts = 1
                  /\ Len(close_log) \in {2, 3}
                  /\ close_log[1] = [do |-> "sleep", seconds |-> GraceDelay]
                  /\ close_log[2].do = "close"
                  /\ Len(close_log) = 3 => close_log[3].do = "log_error")
    /\ [][close_log' # close_log =>
             /\ pc = "finally" /\ pc' = "returned"
             /\ overall_status \in {"success", "error"}
             /\ UNCHANGED ResultVars]_vars

C19_Witness ==
    /\ pc = "returned"
    /\ overall_status = "error"
    /\ last.state = "raised"
    /\ Len(close_log) = 3
    /\ close_log[3].do = "log_error"

\* C20: with a clock that does not go back, the timestamps of consecutive steps
\* of TestResult.steps do not decrease, and every step's timestamp is at or
\* after start_time and, once end_time is set, at or before end_time.
C20_TimestampsInOrder ==
    /\ \A i \in 1..(Len(steps) - 1) : steps[i].timestamp <= steps[i + 1].timestamp
    /\ \A i \in 1..Len(steps) :
          /\ start_time # NoTime
          /\ steps[i].timestamp >= start_time
          /\ end_time # NoTime => steps[i].timestamp <= end_time

C20_Witness ==
    /\ pc = "returned"
    /\ Len(steps) >= 2
    /\ start_time <= steps[1].timestamp
    /\ steps[1].timestamp < steps[Len(steps)].timestamp
    /\ steps[Len(steps)].timestamp <= end_time

\* C21 (as claimed): for every text the OCR engine returns and on every failure
\* path, extract_text_from_image returns a string that holds only characters of
\* the printable ASCII range.
C21_OcrOutputIsPrintableAscii ==
    ocr_out.done =>
        \A i \in 1..Len(ocr_out.value) : ocr_out.value[i] \in PrintableAscii

\* C22: extract_text_from_image never raises: for a missing file it returns
\* 'Image file not found', when opening the image, running the engine or
\* closing the image throws it returns 'OCR Error: ' followed by the exception's
\* message, and the calling gate goes on to the classifier with the returned
\* string as the OCR text.
C22_OcrNeverRaises ==
    /\ ocr_out.done =>
          /\ ~ocr_out.raised
          /\ pc \in {"ocr_gate", "ocr_done"}
          /\ ~ocr_in.exists => ocr_out.value = <<"Image file not found">>
          /\ (ocr_in.exists /\ ocr_in.fail # "none") =>
                ocr_out.value = <<"OCR Error: ">> \o ocr_in.message
    /\ pc = "ocr_done" => ocr_out.gate_called /\ ocr_out.gate_text = ocr_out.value

C22_Witness ==
    /\ pc = "ocr_done"
    /\ ocr_in.fail = "image_to_string"
    /\ ocr_out.gate_text = <<"OCR Error: ", "a">>

\* C23: over one complete run (the test function, then the analysis pass of
\* the reporting flow) analysis and troubleshooting are assigned at most once,
\* together, from a classifier summary call, and a value once set is not
\* overwritten.
C23_AnalysisAssignedAtMostOnce ==
    /\ Len(assignments) <= 1
    /\ \A i \in 1..Len(assignments) :
          assignments[i] \in {"analyze_test_full", "analyze_screenshots"}
    /\ (analysis = None) <=> (troubleshooting = None)
    /\ (assignments = <<>>) <=> (analysis = None)

\* step 6 ends well: one wait_for_conversion step with status success is
\* appended, no step of the run has status error, nothing is raised, and
\* checkpoint 7 is next
WaitEndsInSuccess ==
    /\ pc' = "check_download_availability"
    /\ Len(steps') = Len(steps) + 1
    /\ steps'[Len(steps')].name = "wait_for_conversion"
    /\ steps'[Len(steps')].status = "success"
    /\ \A k \in 1..Len(steps') : steps'[k].status # "error"
    /\ exc' = None
\* the capture of the conversion_complete screenshot threw
CompleteCaptureThrew ==
    /\ last'.body_exc = BrowserError("take_screenshot")
    /\ last'.state = "raised"
HasStep(name) == \E k \in 1..Len(steps) : steps[k].name = name

\* when the loop is left: at the first poll that sees the indicator hidden or a
\* Download element, and when the budget is used up; leaving it records nothing
PollingStopsAtFirstCondition ==
    /\ [](pc = "poll" /\ progress.elapsed < max_wait_time =>
            \A visible \in {"visible", "hidden"}, download \in {"none", "found"},
               call_time \in {0, MaxCallTime} :
               (PollBody(progress, visible, download, call_time).next = "wait_end")
                   <=> (visible = "hidden" \/ download = "found"))
    /\ [][pc = "poll" /\ pc' = "poll" /\ progress' # progress =>
             progress.elapsed < max_wait_time]_vars
    /\ [][pc = "poll" /\ pc' # "poll" =>
             /\ pc' = "wait_end"
             /\ progress'.stop \in {"hidden", "download", "raised", "budget"}
             /\ (progress'.stop = "budget") <=> (progress.elapsed >= max_wait_time)
             /\ UNCHANGED <<steps, exc, overall_status>>]_vars

FallbackSleepOnly ==
    /\ [](pc = "wait_end" /\ ~progress.indicator =>
            /\ progress.slept = FallbackSleep
            /\ progress.polls = 0
            /\ progress.elapsed = 0
            /\ progress.stop = "none"
            /\ ~HasStep("conversion_in_progress"))
    /\ [](progress.indicator => progress.slept = 0)
    /\ [](pc = "poll" => progress.indicator)

FinalVerdict == check_final_state(last.call).value
UnspecifiedError == <<"Conversion failed", "with unspecified error">>
StepsOf(name) == {k \in 1..Len(steps) : steps[k].name = name}

\* C27: in checkpoint 7 the DOM error-element check runs only when the
\* classifier did not report download_available = true; when it runs, a visible
\* error element aborts the run even if a visible download button or success
\* message was found just before, and no success step is recorded for
\* check_download_availability.
C27_DomErrorOverridesDownload ==
    last.cp = "check_download_availability" =>
        /\ "dom_error_check" \in last.performed =>
              /\ last.gate = "passed"
              /\ FinalVerdict.download_available # "true"
        /\ (last.gate = "passed" /\ FinalVerdict.download_available = "true") =>
              last.performed = {}
        /\ "error_element" \in last.performed =>
              /\ "dom_error_check" \in last.performed
              /\ last.state = "raised"
              /\ pc \in {"except", "finally", "returned"}
              /\ \A k \in StepsOf("check_download_availability") :
                    steps[k].status # "success"
              /\ pc \in {"finally", "returned"} => overall_status = "error"

C27_Witness ==
    /\ pc = "returned"
    /\ last.cp = "check_download_availability"
    /\ {"error_element", "download_button"} \subseteq last.performed
    /\ overall_status = "error"

\* C28: in checkpoint 7, whenever a visible DOM error element is found, the
\* exception that reaches execute_test has the message "Conversion failed with
\* unspecified error", whether or not the element's text was read, and the
\* except clause of the checkpoint appends no step; when reading the text
\* fails, the run has no check_download_availability step at all.
C28_DomErrorIsUnspecified ==
    (last.cp = "check_download_availability" /\ "error_element" \in last.performed) =>
        /\ last.body_exc = UnspecifiedError
        /\ last.escaped = UnspecifiedError
        /\ exc = UnspecifiedError
        /\ last.handler_shot = "none"
        /\ \A k \in StepsOf("check_download_availability") :
              /\ steps[k].status = "failure"
              /\ k = last.before + 1
        /\ IF "error_text" \in last.performed
           THEN /\ last.added = 1
                /\ Cardinality(StepsOf("check_download_availability")) = 1
           ELSE /\ last.added = 0
                /\ StepsOf("check_download_availability") = {}
        /\ pc \in {"finally", "returned"} =>
              /\ Len(steps) = last.before + last.added + 1
              /\ steps[Len(steps)].name = "test_execution_failed"
              /\ steps[Len(steps)].error_message = UnspecifiedError

C28_Witness ==
    /\ pc = "returned"
    /\ last.cp = "check_download_availability"
    /\ "error_element" \in last.performed
    /\ "error_text" \notin last.performed
    /\ StepsOf("check_download_availability") = {}
    /\ exc = UnspecifiedError

\* C29: a run whose final check finds no error and no download or success
\* affordance (the classifier reports error = false without download_available,
\* and no DOM selector matches) records check_download_availability with status
\* warning and ends with overall_status success.
C29_NoAffordanceIsWarningSuccess ==
    (/\ last.cp = "check_download_availability"
     /\ last.gate = "passed"
     /\ FinalVerdict.error = "false"
     /\ FinalVerdict.download_available # "true"
     /\ last.performed = {"dom_error_check"}) =>
        /\ \E k \in StepsOf("check_download_availability") : steps[k].status = "warning"
        /\ pc = "returned" => overall_status = "success"

\* C30: in the input-URL checkpoint, whenever the page reports a visible input
\* field, the YouTube URL is typed into an input field before the
\* input_youtube_url success step is recorded.
C30_UrlTypedWhenFieldVisible ==
    (/\ last.cp = "input_youtube_url"
     /\ "input_field_visible" \in last.performed
     /\ last.state = "completed") =>
        "type_url" \in last.performed


\* the screenshots a checkpoint captures on its success path, by the name of
\* the step it records; the input-URL checkpoint captures none
SuccessPathShots(name) ==
    CASE name = "navigate_to_site" -> {"site_navigation"}
      [] name = "click_url_link" -> {"click_url_link"}
      [] name = "select_mp4_format" -> {"select_format"}
      [] name = "click_convert_button" -> {"before_convert_click", "click_convert", "js_convert"}
      [] name = "conversion_in_progress" -> {"conversion_progress"}
      [] name = "wait_for_conversion" -> {"conversion_complete"}
      [] name = "check_download_availability" -> {"final_state"}
      [] OTHER -> {}

\* C31: every success step carries a screenshot captured during that same
\* checkpoint, on its success path, never a screenshot taken by an earlier
\* checkpoint.
C31_SuccessStepHasOwnScreenshot ==
    \A k \in 1..Len(steps) :
        steps[k].status = "success" =>
            steps[k].screenshot_path \in SuccessPathShots(steps[k].name)


\* what the calling checkpoint raises when its locator came back empty
LocatorCameBackEmpty ==
    {<<"Could not find URL link element">>, <<"Could not find convert button">>}

\* C32: failing to locate an element never raises from the locating logic:
\* when every selector strategy misses and the read of a scanned element's text
\* fails, the locator comes back (empty or with a later element), and the only
\* exception for a failed search is the one the calling checkpoint raises.
C32_LocatorNeverRaises ==
    "scan_inner_text" \in last.thrown =>
        /\ last.cp \in {"click_url_link", "click_convert_button"}
        /\ last.body_exc \in {None} \cup LocatorCameBackEmpty


\* C33: whenever a hard checkpoint fails and a screenshot can be captured, the
\* error step recorded for the failing checkpoint carries a screenshot
\* reference, at all six hard checkpoints, navigate_to_site included.
C33_ErrorStepHasScreenshot ==
    (last.state = "raised" /\ last.cp \in HardCheckpoints
     /\ last.handler_shot # "failed") =>
        \A k \in LastAdded :
            steps[k].status = "error" => steps[k].screenshot_path # "None"


\* C34: in every reachable state every recorded step has a status in {success,
\* failure, error, warning}; every step with status error, failure or warning
\* has an error message, and every step with status success has none.
C34_StatusAndMessage ==
    \A k \in 1..Len(steps) :
        /\ steps[k].status \in {"success", "failure", "error", "warning"}
        /\ steps[k].status \in {"failure", "error", "warning"} =>
              steps[k].error_message # None
        /\ steps[k].status = "success" => steps[k].error_message = None


\* the first balanced {...} of a text: from the leftmost "{" to the first "}"
\* after it (an object of the token texts holds no nested braces)
FirstCloseAfterOpen(s) ==
    IF FirstOpen(s) # 0 /\ \E i \in (FirstOpen(s) + 1)..Len(s) : s[i] = "}"
    THEN CHOOSE i \in (FirstOpen(s) + 1)..Len(s) :
             s[i] = "}" /\ \A j \in (FirstOpen(s) + 1)..(i - 1) : s[j] # "}"
    ELSE 0
FirstBalanced(s) == SubSeq(s, FirstOpen(s), FirstCloseAfterOpen(s))
\* prose, then one JSON object, then further text
HoldsFirstObject(call) ==
    /\ call.kind = "text"
    /\ FirstCloseAfterOpen(call.content) # 0
    /\ IsObject(FirstBalanced(call.content))

\* C35: before parsing, each classifier call extracts the first balanced {...}
\* substring of the completion: for a completion made of prose, one JSON
\* object and further text (which may hold braces or a second object), the
\* verdict returned is that of the first object.
C35_FirstObjectIsParsed ==
    (cl_out.fn # "none" /\ HoldsFirstObject(cl_in)) =>
        /\ cl_out.raised = "no"
        /\ cl_out.value = JsonLoads(FirstBalanced(cl_in.content)).value


\* C36: every run that ends with overall_status error has as its last step a
\* step named test_execution_failed with status error whose message is the
\* message of the exception that reached execute_test; a run that ends with
\* success has no test_execution_failed step.
C36_ErrorRunEndsWithFailedStep ==
    /\ overall_status = "error" =>
          /\ pc \in {"finally", "returned"}
          /\ exc # None
          /\ Len(steps) >= 1
          /\ steps[Len(steps)].name = "test_execution_failed"
          /\ steps[Len(steps)].status = "error"
          /\ steps[Len(steps)].error_message = exc
          /\ Cardinality(StepsOf("test_execution_failed")) = 1
    /\ overall_status # "error" => StepsOf("test_execution_failed") = {}

C36_Witness ==
    /\ pc = "returned"
    /\ report = "analyzed"
    /\ overall_status = "error"
    /\ last.cp = "wait_for_conversion"
    /\ steps[Len(steps)].name = "test_execution_failed"
    /\ steps[Len(steps)].error_message = BrowserError("take_screenshot")


C38_StepsAppendOnly ==
    /\ [](\A name \in CheckpointNames :
             LET step == TestStep(name, "success", None, "None", "None")
                 new == add_step(steps, step)
             IN  /\ Len(new) = Len(steps) + 1
                 /\ SubSeq(new, 1, Len(steps)) = steps
                 /\ new[Len(new)] = step)
    /\ [][/\ Len(steps') \in Len(steps)..(Len(steps) + 2)
          /\ SubSeq(steps', 1, Len(steps)) = steps]_vars

C38_Witness ==
    /\ pc = "returned"
    /\ report = "analyzed"
    /\ overall_status = "success"
    /\ Len(steps) = 8

====
